---- MODULE Spec2Model ----
(***************************************************************************)
(* The disk-backed storage engine of ent (diskFS: Create, Delete, Open,    *)
(* List) running against a POSIX directory tree, and the in-memory engine  *)
(* (MemoryFS).  Every system call a handler makes is one step of the       *)
(* calling process, so that handlers of different callers interleave.      *)
(*                                                                         *)
(* Paths and keys are sequences of one-character strings, so that          *)
(* filepath.Join, filepath.Dir, strings.HasPrefix and strings.TrimPrefix   *)
(* are computed character by character as the Go library computes them.    *)
(***************************************************************************)
EXTENDS Naturals, Sequences, FiniteSets, TLC

(***************************************************************************)
(* Bounds of the model.                                                    *)
(***************************************************************************)
\* operations started in one behaviour, over all callers
MaxOps == 2
\* the callers: goroutines are interchangeable, so a call is given to the
\* second caller only while the first is inside a call (and only in a
\* behaviour in which the medium has failed no system call, see CreateFault)
First == "p1"

Second == "p2"

Procs == {First, Second}

\* ------------------------------------------------------------------------
\* Paths
\* ------------------------------------------------------------------------
Sep == "/"

Root == <<"r">>

BucketName == <<"x">>

KeyA == <<"a">>

KeyAB == <<"a", "/", "b">>

KeyC == <<"c">>

Keys == {KeyA, KeyAB, KeyC}

\* the source streams handed to Create
Contents == {<<1, 2>>, <<3>>}

\* the prefix diskFS.Create gives ioutil.TempFile
PendingPrefix == <<"p", "e", "n", "d", "i", "n", "g", "-">>

\* the suffixes ioutil.TempFile tries, in the order the model tries them
TempSuffixes == <<"0", "1", "2", "3", "4">>

RECURSIVE SplitFrom(_, _, _)
\* the elements of path s between separators, from position i on; cur is the
\* element being read
SplitFrom(s, i, cur) ==
    IF i > Len(s) THEN <<cur>>
    ELSE IF s[i] = Sep THEN <<cur>> \o SplitFrom(s, i + 1, <<>>)
    ELSE SplitFrom(s, i + 1, Append(cur, s[i]))

Split(s) == SplitFrom(s, 1, <<>>)

RECURSIVE JoinElems(_)
\* the elements joined by single separators
JoinElems(es) ==
    IF Len(es) = 0 THEN <<>>
    ELSE IF Len(es) = 1 THEN es[1]
    ELSE es[1] \o <<Sep>> \o JoinElems(Tail(es))

RECURSIVE CleanElems(_, _)
\* filepath.Clean on the elements of a relative path: empty and "." elements
\* are dropped, ".." removes the element before it unless that is ".." too
CleanElems(es, out) ==
    IF Len(es) = 0 THEN out
    ELSE IF es[1] = <<>> \/ es[1] = <<".">> THEN CleanElems(Tail(es), out)
    ELSE IF es[1] = <<".", ".">>
         THEN IF Len(out) > 0 /\ out[Len(out)] # <<".", ".">>
              THEN CleanElems(Tail(es), SubSeq(out, 1, Len(out) - 1))
              ELSE CleanElems(Tail(es), Append(out, es[1]))
    ELSE CleanElems(Tail(es), Append(out, es[1]))

\* filepath.Clean of a relative path; the empty result is "."
Clean(s) ==
    LET es == CleanElems(Split(s), <<>>)
    IN  IF Len(es) = 0 THEN <<".">> ELSE JoinElems(es)

\* filepath.Join of two elements: empty elements are ignored, the rest is
\* joined by separators and cleaned
Join2(a, b) ==
    IF a = <<>> /\ b = <<>> THEN <<>>
    ELSE IF a = <<>> THEN Clean(b)
    ELSE IF b = <<>> THEN Clean(a)
    ELSE Clean(a \o <<Sep>> \o b)

\* filepath.Dir: the path without its last element, cleaned
Dir(s) ==
    LET es == Split(s)
    IN  IF Len(es) <= 1 THEN <<".">>
        ELSE Clean(JoinElems(SubSeq(es, 1, Len(es) - 1)))

\* strings.HasPrefix
HasPrefix(s, pre) ==
    /\ Len(pre) <= Len(s)
    /\ SubSeq(s, 1, Len(pre)) = pre

\* strings.TrimPrefix
TrimPrefix(s, pre) ==
    IF HasPrefix(s, pre) THEN SubSeq(s, Len(pre) + 1, Len(s)) ELSE s

\* filepath.Join(fs.root, bucket.Name): the bucket directory
BucketDir == Join2(Root, BucketName)

\* a path made of the first element of the key only
pathForFile_FirstElem(key) == Join2(BucketDir, Split(key)[1])

\* pathForFile: filepath.Join(fs.root, bucket.Name, key)
pathForFile(key) == Join2(BucketDir, key)

\* ------------------------------------------------------------------------
\* State
\* ------------------------------------------------------------------------
VARIABLES
    engine,     \* "disk": newDiskFS is in use; "memory": NewMemoryFS
    fsys,       \* the directory tree: existing path -> inode (0: a directory)
    idata,      \* inode -> the bytes of the file
    mem,        \* MemoryFS.buckets[bucket]: key -> the MemoryFile's buffer
    memBucket,  \* whether MemoryFS.buckets has an entry for the bucket
    pc,         \* where each caller is inside its handler
    call,       \* the operation and arguments of each caller's last call
    fd,         \* the inode behind the caller's open *os.File (0: none or a directory)
    off,        \* bytes copied from the source (Create) or read (Open)
    tmp,        \* tmp.Name() of the caller's Create
    rbuf,       \* the bytes the caller has read from the handle Open returned
    listed,     \* the keys of the Files the caller's List returned
    ret,        \* what each caller's last call returned, "none" once any call starts
    nops,       \* calls started
    faulted,    \* history: the medium has failed a system call (ENOSPC, EMFILE, EIO)
    overlapped, \* history: some call started while another was in flight
    lastPub,    \* history: per key, the data of the Create renamed last, if not removed since
    pub,        \* history: per key, the data of every Create renamed onto it
    acked,      \* history: per key, the last call on it that returned success
    before,     \* history: what the caller's Create or Delete found when it was called
    mtime,      \* the modification time of each file: by inode (disk), by key (memory)
    now,        \* the time the backend stamped last
    files,      \* the ent.Files of the last List: the key and lastModified of each
    sortValue,    \* the sort parameter: the string a request carries or EncodeParam gives
    sortStrategy, \* the ent.SortStrategy createSortStrategy returned, or the one encoded
    sortErr,      \* the error createSortStrategy returned, "none" before it is called
    given,        \* history: the token or strategy the round trip started from
    trip,         \* how many of decoding and encoding have been done
    policies,     \* the entries of the policy directory, in the order of the walk
    buckets,      \* diskProvider.buckets: name -> the Bucket loaded for it
    req,          \* the request the last handler served
    invoked,      \* the Provider and FileSystem operations that handler called, in order
    resp,         \* the status and the error that handler answered with
    handles,      \* the *file values callers hold, in the order they were made
    lastOp,       \* the last operation on the store or on a handle
    hashRet,      \* what the last call of Hash returned
    todo          \* the paths the filepath.Walk of List has still to visit

vars == <<engine, fsys, idata, mem, memBucket, pc, call, fd, off, tmp, rbuf,
          listed, ret, nops, faulted, overlapped, lastPub, pub, acked, before,
          mtime, now, files, sortValue, sortStrategy, sortErr, given, trip,
          policies, buckets, req, invoked, resp, handles, lastOp, hashRet, todo>>

diskVars == <<fsys, idata>>

memVars == <<mem, memBucket>>

histVars == <<lastPub, pub, acked>>

\* the state of listings with their modification times
listVars == <<mtime, now, files>>

\* the sort parameter and its decoding
paramVars == <<sortValue, sortStrategy, sortErr, given, trip>>

\* the registry of buckets and the request handlers
handlerVars == <<policies, buckets, req, invoked, resp>>

\* the file handles and their hashes
hashVars == <<handles, lastOp, hashRet>>

\* the state of the components apart from the storage engines
apartVars == <<paramVars, handlerVars, hashVars, todo>>

\* what no step of a caller of Create, Delete, Open and the walk of List
\* changes: the engine in use, and the state the other components keep
restVars == <<engine, listVars, apartVars>>

\* ent.DefaultLimit is math.MaxUint64; the model takes the largest integer
\* TLC has, which is as far above every count of files
DefaultLimit == 2147483647

Prefixes == {<<>>, <<"a">>}

Limits == {1, DefaultLimit}

NoCall == [op |-> "none", key |-> <<>>, data |-> <<>>, limit |-> 0]

Absent == [has |-> FALSE, data |-> <<>>]

Present(d) == [has |-> TRUE, data |-> d]

NoBefore == [err |-> "none", data |-> <<>>, tree |-> << >>]

\* ------------------------------------------------------------------------
\* The directory tree and its system calls
\* ------------------------------------------------------------------------
Exists(f, path) == path \in DOMAIN f

IsDirAt(f, path) == Exists(f, path) /\ f[path] = 0

IsFileAt(f, path) == Exists(f, path) /\ f[path] # 0

RECURSIVE Ancestors(_)
\* the directories above path, up to the working directory
Ancestors(path) ==
    IF Dir(path) = <<".">> THEN {<<".">>}
    ELSE {Dir(path)} \cup Ancestors(Dir(path))

\* errno of resolving path: a missing element is ENOENT, a file where a
\* directory is needed is ENOTDIR
LookupErr(f, path) ==
    IF Exists(f, path) THEN "ok"
    ELSE IF \E a \in Ancestors(path) : IsFileAt(f, a) THEN "ENOTDIR"
    ELSE "ENOENT"

\* os.IsNotExist: true of ENOENT only
IsNotExist(errno) == errno = "ENOENT"

\* the entries directly or indirectly below dir
Below(f, dir) == {q \in DOMAIN f : HasPrefix(q, dir \o <<Sep>>)}

\* os.MkdirAll fails when path or a directory above it is a file
MkdirAllErr(f, path) ==
    \E a \in Ancestors(path) \cup {path} : IsFileAt(f, a)

\* os.MkdirAll creates path and every missing directory above it
MkdirAllDo(f, path) ==
    LET new == (Ancestors(path) \cup {path}) \ DOMAIN f
    IN  [q \in DOMAIN f \cup new |-> IF q \in DOMAIN f THEN f[q] ELSE 0]

RECURSIVE FirstFree(_, _, _)
\* the first name dir/pending-<suffix> that does not exist, <<>> when all do
FirstFree(f, dir, i) ==
    IF i > Len(TempSuffixes) THEN <<>>
    ELSE LET name == Join2(dir, Append(PendingPrefix, TempSuffixes[i]))
         IN  IF Exists(f, name) THEN FirstFree(f, dir, i + 1) ELSE name

\* the name ioutil.TempFile(dir, "pending-") opens with O_CREATE|O_EXCL; none
\* when dir is no directory
TempName(f, dir) == IF IsDirAt(f, dir) THEN FirstFree(f, dir, 1) ELSE <<>>

\* inodes in use: linked in the tree or behind an open handle
Live(f, h) == ({f[q] : q \in DOMAIN f} \cup {h[p] : p \in Procs}) \ {0}

\* the kernel frees an inode once it is neither linked nor open
Reclaim(f, h, d) == [i \in DOMAIN d \cap Live(f, h) |-> d[i]]

\* a fresh inode number
NewIno(d) == CHOOSE i \in 1..(Cardinality(DOMAIN d) + 1) : i \notin DOMAIN d

\* open(2) with O_CREATE: a new empty file, or the existing one truncated
CreateIno(f, d, path) == IF IsFileAt(f, path) THEN f[path] ELSE NewIno(d)

\* rename(2) of a file fails when the source is gone, when the directory of
\* the target is missing, or when the target is a directory
RenameErr(f, old, new) ==
    \/ ~IsFileAt(f, old)
    \/ ~IsDirAt(f, Dir(new))
    \/ IsDirAt(f, new)

\* a rename that leaves an existing target as it is and drops the source
RenameDo_KeepTarget(f, old, new) ==
    IF Exists(f, new) THEN [q \in DOMAIN f \ {old} |-> f[q]]
    ELSE [q \in (DOMAIN f \cup {new}) \ {old} |-> IF q = new THEN f[old] ELSE f[q]]

\* rename(2): new names the inode of old, old is gone, in one step
RenameDo(f, old, new) ==
    IF old = new THEN f
    ELSE [q \in (DOMAIN f \cup {new}) \ {old} |-> IF q = new THEN f[old] ELSE f[q]]

\* os.Remove fails on a missing path and on a directory that is not empty
RemoveErr(f, path) ==
    \/ ~Exists(f, path)
    \/ (IsDirAt(f, path) /\ Below(f, path) # {})

\* os.Remove: unlink(2) of a file, rmdir(2) of an empty directory
RemoveDo(f, path) == [q \in DOMAIN f \ {path} |-> f[q]]

\* ------------------------------------------------------------------------
\* Listing
\* ------------------------------------------------------------------------
\* the bytes that occur in paths, in byte order
Alphabet == <<"-", ".", "/", "0", "1", "2", "3", "4", "a", "b", "c", "d",
              "e", "g", "i", "n", "p", "r", "x">>

ByteOf(c) == CHOOSE i \in 1..Len(Alphabet) : Alphabet[i] = c

RECURSIVE StrLess(_, _)
\* s < t as Go compares strings: byte by byte, a proper prefix is smaller
StrLess(s, t) ==
    IF Len(t) = 0 THEN FALSE
    ELSE IF Len(s) = 0 THEN TRUE
    ELSE IF s[1] # t[1] THEN ByteOf(s[1]) < ByteOf(t[1])
    ELSE StrLess(Tail(s), Tail(t))

RECURSIVE ElemsLess(_, _)
\* the order filepath.Walk visits two paths in: directory by directory, the
\* names of one directory in lexical order
ElemsLess(a, b) ==
    IF Len(b) = 0 THEN FALSE
    ELSE IF Len(a) = 0 THEN TRUE
    ELSE IF a[1] # b[1] THEN StrLess(a[1], b[1])
    ELSE ElemsLess(Tail(a), Tail(b))

WalkLess(p, q) == ElemsLess(Split(p), Split(q))

RECURSIVE WalkOrder(_)
\* the paths of a set in the order filepath.Walk visits them
WalkOrder(S) ==
    IF S = {} THEN <<>>
    ELSE LET m == CHOOSE x \in S : \A y \in S \ {x} : WalkLess(x, y)
         IN  <<m>> \o WalkOrder(S \ {m})

\* listWalk: whether the walk appends the entry at path to the files
listWalk(f, path, prefixGlob) ==
    /\ ~IsDirAt(f, path)
    /\ HasPrefix(path, prefixGlob)

\* the key listWalk gives the File of path
WalkKey(path) == TrimPrefix(path, BucketDir \o <<Sep>>)

\* diskFS.List: nothing when the bucket directory is missing, else the keys of
\* the entries listWalk appends, in walk order (the no-op sort leaves them so),
\* cut to the limit
List(f, prefix, limit) ==
    LET prefixGlob == Join2(BucketDir, prefix)
        hits  == {q \in Below(f, BucketDir) \cup {BucketDir} : listWalk(f, q, prefixGlob)}
        walked == WalkOrder(hits)
        keys  == [i \in 1..Len(walked) |-> WalkKey(walked[i])]
    IN  IF ~Exists(f, BucketDir) THEN <<>>
        ELSE IF limit < Len(keys) THEN SubSeq(keys, 1, limit)
        ELSE keys

\* ------------------------------------------------------------------------
\* Initial state: an empty root directory, an empty MemoryFS, no call made
\* ------------------------------------------------------------------------
\* the tree of a root directory in which nothing was stored yet
EmptyTree == [q \in {<<".">>, Root} |-> 0]

\* the object a store may hold when the process starts: its key and content
SeedKey == KeyAB

SeedData == <<3>>

\* the tree a successful Create(SeedKey, SeedData) leaves of EmptyTree
SeedTree ==
    LET made == MkdirAllDo(EmptyTree, Dir(pathForFile(SeedKey)))
    IN  [q \in DOMAIN made \cup {pathForFile(SeedKey)} |->
            IF q = pathForFile(SeedKey) THEN 1 ELSE made[q]]

\* no strategy in hand
NoStrategy == [kind |-> "nil", isAscending |-> FALSE]

\* no sort parameter received or encoded
ParamIdle ==
    /\ sortValue = <<>>
    /\ sortStrategy = NoStrategy
    /\ sortErr = "none"
    /\ given = [from |-> "none", value |-> <<>>, strategy |-> NoStrategy]
    /\ trip = 0

NoRequest == [handler |-> "none", bucket |-> <<>>, key |-> <<>>,
              limitValue |-> <<>>, prefix |-> <<>>, sortValue |-> <<>>]

NoResponse == [code |-> 0, err |-> "none"]

\* no request served
HandlerIdle ==
    /\ policies = <<>>
    /\ buckets = << >>
    /\ req = NoRequest
    /\ invoked = <<>>
    /\ resp = NoResponse

NoOp == [op |-> "none", h |-> 0, err |-> "none"]

NoHash == [h |-> 0, err |-> "none", sum |-> <<>>, cached |-> FALSE, after |-> NoOp]

\* no handle made, Hash never called
HashIdle ==
    /\ handles = <<>>
    /\ lastOp = NoOp
    /\ hashRet = NoHash

\* no walk of a listing under way
WalkIdle == todo = <<>>

\* the components apart from the storage engines have done nothing
ApartIdle == ParamIdle /\ HandlerIdle /\ HashIdle /\ WalkIdle

\* no listing made, no modification time kept
ListIdle ==
    /\ mtime = << >>
    /\ now = 0
    /\ files = << >>

Init ==
    /\ engine \in {"disk", "memory"}
    /\ \/ /\ fsys = EmptyTree
          /\ idata = << >>
          /\ lastPub = [k \in Keys |-> Absent]
          /\ pub = [k \in Keys |-> {}]
       \/ /\ engine = "disk"
          /\ fsys = SeedTree
          /\ idata = [i \in {1} |-> SeedData]
          /\ lastPub = [k \in Keys |-> IF k = SeedKey THEN Present(SeedData) ELSE Absent]
          /\ pub = [k \in Keys |-> IF k = SeedKey THEN {SeedData} ELSE {}]
    /\ acked = [k \in Keys |-> IF IsFileAt(fsys, pathForFile(k)) THEN "created" ELSE "none"]
    /\ mem = << >>
    /\ memBucket = FALSE
    /\ pc = [p \in Procs |-> "idle"]
    /\ call = [p \in Procs |-> NoCall]
    /\ fd = [p \in Procs |-> 0]
    /\ off = [p \in Procs |-> 0]
    /\ tmp = [p \in Procs |-> <<>>]
    /\ rbuf = [p \in Procs |-> <<>>]
    /\ listed = [p \in Procs |-> <<>>]
    /\ ret = [p \in Procs |-> "none"]
    /\ nops = 0
    /\ faulted = FALSE
    /\ overlapped = FALSE
    /\ before = [p \in Procs |-> NoBefore]
    /\ ListIdle
    /\ ApartIdle

\* ------------------------------------------------------------------------
\* Open as one uninterrupted call
\* ------------------------------------------------------------------------
\* what Open returns when os.Stat answers errno and isDir: "" is no return yet
OpenStatResult(errno, isDir) ==
    IF errno # "ok"
    THEN IF IsNotExist(errno) THEN "FileNotFound" ELSE "error"
    ELSE IF isDir THEN "FileNotFound"
    ELSE ""

\* diskFS.Open(bucket, k) on tree f with no step of another caller inside it,
\* and the bytes the handle gives when read to the end of the stream
DiskOpen(f, d, k) ==
    LET path == pathForFile(k)
        r    == OpenStatResult(LookupErr(f, path), IsDirAt(f, path))
    IN  IF r # "" THEN [err |-> r, data |-> <<>>]
        ELSE [err |-> "nil", data |-> d[f[path]]]

\* what MemoryFS.Open returns for key k
MemOpenResult(k) ==
    IF ~memBucket THEN "FileNotFound"
    ELSE IF k \notin DOMAIN mem THEN "FileNotFound"
    ELSE "nil"

\* MemoryFS.Open(bucket, k), and the bytes its File gives when read to the end
MemOpenNow(k) ==
    IF MemOpenResult(k) = "nil" THEN [err |-> "nil", data |-> mem[k]]
    ELSE [err |-> MemOpenResult(k), data |-> <<>>]

\* Open(bucket, k) and a read to the end of the stream, on the engine in use
OpenNow(k) == IF engine = "disk" THEN DiskOpen(fsys, idata, k) ELSE MemOpenNow(k)

\* ------------------------------------------------------------------------
\* Calls and returns
\* ------------------------------------------------------------------------
\* the first system call of each handler
FirstPc(op) ==
    CASE op = "Create" -> "mkdir"
      [] op = "Delete" -> "dstat"
      [] op = "Open"   -> "ostat"
      [] op = "List"   -> "list"
      [] op = "ListWalk" -> "wstat"

\* what a Create or Delete finds under its key when it is called
Found(c) ==
    IF c.op \in {"Create", "Delete"}
    THEN [err  |-> OpenNow(c.key).err,
          data |-> OpenNow(c.key).data,
          tree |-> IF c.op = "Delete" /\ engine = "disk" THEN fsys ELSE << >>]
    ELSE NoBefore

\* caller p enters a handler of the disk engine with arguments c
Enter(p, c) ==
    /\ pc[p] = "idle"
    /\ p = Second => (pc[First] # "idle" /\ ~faulted)
    /\ nops < MaxOps
    /\ nops' = nops + 1
    /\ call' = [q \in Procs |-> IF q = p THEN c
                                 ELSE IF pc[q] = "idle" THEN NoCall ELSE call[q]]
    /\ before' = [q \in Procs |-> IF q = p THEN Found(c)
                                   ELSE IF pc[q] = "idle" THEN NoBefore ELSE before[q]]
    /\ pc' = [pc EXCEPT ![p] = FirstPc(c.op)]
    /\ ret' = [q \in Procs |-> "none"]
    /\ rbuf' = [q \in Procs |-> IF pc[q] = "idle" THEN <<>> ELSE rbuf[q]]
    /\ listed' = [q \in Procs |-> IF pc[q] = "idle" THEN <<>> ELSE listed[q]]
    /\ overlapped' = (overlapped \/ \E q \in Procs \ {p} : pc[q] # "idle")

\* caller p's handler returns r; the caller closes the handle it holds, and
\* the tree becomes f
Return(p, r, f) ==
    /\ pc' = [pc EXCEPT ![p] = "idle"]
    /\ ret' = [ret EXCEPT ![p] = r]
    /\ fd' = [fd EXCEPT ![p] = 0]
    /\ off' = [off EXCEPT ![p] = 0]
    /\ tmp' = [tmp EXCEPT ![p] = <<>>]
    /\ fsys' = f
    /\ idata' = Reclaim(f, [fd EXCEPT ![p] = 0], idata)

CallCreate(p) ==
    /\ engine = "disk"
    /\ \E k \in Keys, d \in Contents :
         Enter(p, [op |-> "Create", key |-> k, data |-> d, limit |-> 0])
    /\ UNCHANGED <<restVars, diskVars, memVars, fd, off, tmp, faulted, histVars>>

CallDelete(p) ==
    /\ engine = "disk"
    /\ \E k \in Keys :
         Enter(p, [op |-> "Delete", key |-> k, data |-> <<>>, limit |-> 0])
    /\ UNCHANGED <<restVars, diskVars, memVars, fd, off, tmp, faulted, histVars>>

CallOpen(p) ==
    /\ engine = "disk"
    /\ \E k \in Keys :
         Enter(p, [op |-> "Open", key |-> k, data |-> <<>>, limit |-> 0])
    /\ UNCHANGED <<restVars, diskVars, memVars, fd, off, tmp, faulted, histVars>>

CallList(p) ==
    /\ engine = "disk"
    /\ \E pre \in Prefixes, l \in Limits :
         Enter(p, [op |-> "List", key |-> pre, data |-> <<>>, limit |-> l])
    /\ UNCHANGED <<restVars, diskVars, memVars, fd, off, tmp, faulted, histVars>>

\* ------------------------------------------------------------------------
\* diskFS.Create
\* ------------------------------------------------------------------------
\* dst := pathForFile(fs, bucket, key)
dst(p) == pathForFile(call[p].key)

\* a Create that writes the source straight into the destination
tmpName_InPlace(f, p) == dst(p)

\* tmp.Name(): the file caller p's Create writes the source into
tmpName(f, p) == TempName(f, BucketDir)

\* os.MkdirAll(filepath.Dir(dst), 0755)
CreateMkdirAll(p) ==
    /\ pc[p] = "mkdir"
    /\ IF MkdirAllErr(fsys, Dir(dst(p)))
       THEN Return(p, "error", fsys)
       ELSE /\ fsys' = MkdirAllDo(fsys, Dir(dst(p)))
            /\ pc' = [pc EXCEPT ![p] = "tempfile"]
            /\ UNCHANGED <<idata, fd, off, tmp, ret>>
    /\ UNCHANGED <<restVars, memVars, call, rbuf, listed, nops, faulted, overlapped,
                   histVars, before>>

\* a Create that renames without waiting for the end of the source
AfterCopy_Early(p, n) == "rename"

\* the step after the source has given n of its bytes: more to copy, or rename
AfterCopy(p, n) == IF n < Len(call[p].data) THEN "copy" ELSE "rename"

\* ioutil.TempFile(filepath.Join(fs.root, bucket.Name), "pending-")
CreateTempFile(p) ==
    /\ pc[p] = "tempfile"
    /\ LET name == tmpName(fsys, p)
           ino  == CreateIno(fsys, idata, name)
       IN  IF ~IsDirAt(fsys, BucketDir) \/ name = <<>> \/ IsDirAt(fsys, name)
           THEN Return(p, "error", fsys)
           ELSE /\ fsys' = [q \in DOMAIN fsys \cup {name} |->
                              IF q = name THEN ino ELSE fsys[q]]
                /\ idata' = [i \in DOMAIN idata \cup {ino} |->
                              IF i = ino THEN <<>> ELSE idata[i]]
                /\ fd' = [fd EXCEPT ![p] = ino]
                /\ tmp' = [tmp EXCEPT ![p] = name]
                /\ off' = [off EXCEPT ![p] = 0]
                /\ pc' = [pc EXCEPT ![p] = AfterCopy(p, 0)]
                /\ UNCHANGED ret
    /\ UNCHANGED <<restVars, memVars, call, rbuf, listed, nops, faulted, overlapped,
                   histVars, before>>

\* one round of io.Copy(f, r): file.Write of the next byte of the source
CreateCopy(p) ==
    /\ pc[p] = "copy"
    /\ idata' = [idata EXCEPT ![fd[p]] = Append(@, call[p].data[off[p] + 1])]
    /\ off' = [off EXCEPT ![p] = @ + 1]
    /\ pc' = [pc EXCEPT ![p] = AfterCopy(p, off[p] + 1)]
    /\ UNCHANGED <<restVars, fsys, memVars, call, fd, tmp, rbuf, listed, ret, nops,
                   faulted, overlapped, histVars, before>>

\* os.Rename(tmp.Name(), dst)
CreateRename(p) ==
    /\ pc[p] = "rename"
    /\ IF RenameErr(fsys, tmp[p], dst(p))
       THEN /\ Return(p, "rename failed", fsys)
            /\ UNCHANGED <<lastPub, pub>>
       ELSE /\ fsys' = RenameDo(fsys, tmp[p], dst(p))
            /\ idata' = Reclaim(fsys', fd, idata)
            /\ pc' = [pc EXCEPT ![p] = "reopen"]
            /\ lastPub' = [lastPub EXCEPT ![call[p].key] = Present(call[p].data)]
            /\ pub' = [pub EXCEPT ![call[p].key] = @ \cup {call[p].data}]
            /\ UNCHANGED <<fd, off, tmp, ret>>
    /\ UNCHANGED <<restVars, memVars, call, rbuf, listed, nops, faulted, overlapped,
                   acked, before>>

\* f.File, err = os.Open(dst)
CreateReopen(p) ==
    /\ pc[p] = "reopen"
    /\ IF LookupErr(fsys, dst(p)) # "ok"
       THEN Return(p, "open failed", fsys)
       ELSE /\ fd' = [fd EXCEPT ![p] = fsys[dst(p)]]
            /\ idata' = Reclaim(fsys, fd', idata)
            /\ pc' = [pc EXCEPT ![p] = "fstat"]
            /\ UNCHANGED <<fsys, off, tmp, ret>>
    /\ UNCHANGED <<restVars, memVars, call, rbuf, listed, nops, faulted, overlapped,
                   histVars, before>>

\* f.File.Stat(), f.lastModified = stat.ModTime(), return f, nil
CreateStat(p) ==
    /\ pc[p] = "fstat"
    /\ Return(p, "nil", fsys)
    /\ acked' = [acked EXCEPT ![call[p].key] = "created"]
    /\ UNCHANGED <<restVars, memVars, call, rbuf, listed, nops, faulted, overlapped,
                   lastPub, pub, before>>

\* the steps of Create whose system call the medium can fail
CreatePcs == {"mkdir", "tempfile", "copy", "rename", "reopen", "fstat"}

\* the error Create returns when the system call of step s fails
CreateError(s) ==
    CASE s = "copy"   -> "storing failed"
      [] s = "rename" -> "rename failed"
      [] s = "reopen" -> "open failed"
      [] OTHER        -> "error"

\* a system call of Create fails (disk full, too many open files, I/O error,
\* a failing source): Create returns the error, leaving the tree as it is.
\* The model fails system calls in the behaviours whose calls do not overlap,
\* and lets calls overlap in the behaviours without a failed system call.
CreateFault(p) ==
    /\ pc[p] \in CreatePcs
    /\ ~overlapped
    /\ faulted' = TRUE
    /\ Return(p, CreateError(pc[p]), fsys)
    /\ UNCHANGED <<restVars, memVars, call, rbuf, listed, nops, overlapped, histVars,
                   before>>

\* ------------------------------------------------------------------------
\* diskFS.Delete
\* ------------------------------------------------------------------------
\* what Delete returns when os.Stat answers errno: "" is no return yet
DeleteStatResult(errno) ==
    IF errno = "ok" THEN ""
    ELSE IF IsNotExist(errno) THEN "FileNotFound"
    ELSE "error"

\* _, err := os.Stat(p)
DeleteStat(p) ==
    /\ pc[p] = "dstat"
    /\ LET r == DeleteStatResult(LookupErr(fsys, dst(p)))
       IN  IF r # ""
           THEN Return(p, r, fsys)
           ELSE /\ pc' = [pc EXCEPT ![p] = "remove"]
                /\ UNCHANGED <<diskVars, fd, off, tmp, ret>>
    /\ UNCHANGED <<restVars, memVars, call, rbuf, listed, nops, faulted, overlapped,
                   histVars, before>>

\* err = os.Remove(p)
DeleteRemove(p) ==
    /\ pc[p] = "remove"
    /\ IF RemoveErr(fsys, dst(p))
       THEN /\ Return(p, "removal failed", fsys)
            /\ UNCHANGED histVars
       ELSE /\ Return(p, "nil", RemoveDo(fsys, dst(p)))
            /\ lastPub' = [lastPub EXCEPT ![call[p].key] = Absent]
            /\ acked' = IF IsFileAt(fsys, dst(p))
                        THEN [acked EXCEPT ![call[p].key] = "deleted"]
                        ELSE acked
            /\ UNCHANGED pub
    /\ UNCHANGED <<restVars, memVars, call, rbuf, listed, nops, faulted, overlapped,
                   before>>

\* ------------------------------------------------------------------------
\* diskFS.Open, and the caller reading the handle to the end of the stream
\* ------------------------------------------------------------------------
\* stat, err := os.Stat(path); stat.IsDir()
OpenStat(p) ==
    /\ pc[p] = "ostat"
    /\ LET r == OpenStatResult(LookupErr(fsys, dst(p)), IsDirAt(fsys, dst(p)))
       IN  IF r # ""
           THEN Return(p, r, fsys)
           ELSE /\ pc' = [pc EXCEPT ![p] = "oopen"]
                /\ UNCHANGED <<diskVars, fd, off, tmp, ret>>
    /\ UNCHANGED <<restVars, memVars, call, rbuf, listed, nops, faulted, overlapped,
                   histVars, before>>

\* f, err := os.Open(path); return newFile(f, key), nil
OpenOpen(p) ==
    /\ pc[p] = "oopen"
    /\ IF LookupErr(fsys, dst(p)) # "ok"
       THEN Return(p, "error", fsys)
       ELSE /\ fd' = [fd EXCEPT ![p] = fsys[dst(p)]]
            /\ off' = [off EXCEPT ![p] = 0]
            /\ pc' = [pc EXCEPT ![p] = "read"]
            /\ UNCHANGED <<diskVars, tmp, ret>>
    /\ UNCHANGED <<restVars, memVars, call, rbuf, listed, nops, faulted, overlapped,
                   histVars, before>>

\* the caller's f.Read: the next byte, or the end of the stream, after which
\* the caller has the whole content and closes the handle; read(2) of a
\* directory fails
OpenRead(p) ==
    /\ pc[p] = "read"
    /\ IF fd[p] = 0
       THEN /\ Return(p, "error", fsys)
            /\ UNCHANGED rbuf
       ELSE IF off[p] < Len(idata[fd[p]])
       THEN /\ rbuf' = [rbuf EXCEPT ![p] = Append(@, idata[fd[p]][off[p] + 1])]
            /\ off' = [off EXCEPT ![p] = @ + 1]
            /\ UNCHANGED <<diskVars, pc, fd, tmp, ret>>
       ELSE /\ Return(p, "nil", fsys)
            /\ UNCHANGED rbuf
    /\ UNCHANGED <<restVars, memVars, call, listed, nops, faulted, overlapped,
                   histVars, before>>

\* ------------------------------------------------------------------------
\* diskFS.List
\* ------------------------------------------------------------------------
ListWalk(p) ==
    /\ pc[p] = "list"
    /\ listed' = [listed EXCEPT ![p] = List(fsys, call[p].key, call[p].limit)]
    /\ Return(p, "nil", fsys)
    /\ UNCHANGED <<restVars, memVars, call, rbuf, nops, faulted, overlapped, histVars,
                   before>>

\* ------------------------------------------------------------------------
\* MemoryFS: a Go map without a lock, called by one caller at a time
\* ------------------------------------------------------------------------
\* a call c of the in-memory engine, from entry to its return of r
MemCall(p, c, r) ==
    /\ engine = "memory"
    /\ p = First
    /\ \A q \in Procs : pc[q] = "idle"
    /\ nops < MaxOps
    /\ nops' = nops + 1
    /\ call' = [q \in Procs |-> IF q = p THEN c ELSE NoCall]
    /\ before' = [q \in Procs |-> IF q = p THEN Found(c) ELSE NoBefore]
    /\ ret' = [q \in Procs |-> IF q = p THEN r ELSE "none"]
    /\ UNCHANGED <<restVars, diskVars, pc, fd, off, tmp, listed, faulted, overlapped>>

\* MemoryFS.Create: io.Copy into a new MemoryFile, stored under its key
MemCreate(p) ==
    \E k \in Keys, d \in Contents :
        /\ MemCall(p, [op |-> "Create", key |-> k, data |-> d, limit |-> 0], "nil")
        /\ mem' = [q \in DOMAIN mem \cup {k} |-> IF q = k THEN d ELSE mem[q]]
        /\ memBucket' = TRUE
        /\ rbuf' = [q \in Procs |-> <<>>]
        /\ lastPub' = [lastPub EXCEPT ![k] = Present(d)]
        /\ pub' = [pub EXCEPT ![k] = @ \cup {d}]
        /\ acked' = [acked EXCEPT ![k] = "created"]

\* MemoryFS.Delete: nil when the bucket has no map, else delete(map, key), nil
MemDelete(p) ==
    \E k \in Keys :
        /\ MemCall(p, [op |-> "Delete", key |-> k, data |-> <<>>, limit |-> 0], "nil")
        /\ mem' = IF memBucket THEN [q \in DOMAIN mem \ {k} |-> mem[q]] ELSE mem
        /\ lastPub' = [lastPub EXCEPT ![k] = Absent]
        /\ acked' = IF k \in DOMAIN mem THEN [acked EXCEPT ![k] = "deleted"] ELSE acked
        /\ rbuf' = [q \in Procs |-> <<>>]
        /\ UNCHANGED <<memBucket, pub>>

\* MemoryFS.Open returns the stored MemoryFile itself; the caller reads it to
\* the end of the stream, and bytes.Buffer.Read drains what it returns
MemOpen(p) ==
    \E k \in Keys :
        /\ MemCall(p, [op |-> "Open", key |-> k, data |-> <<>>, limit |-> 0],
                   MemOpenResult(k))
        /\ IF MemOpenResult(k) = "nil"
           THEN /\ rbuf' = [q \in Procs |-> IF q = p THEN mem[k] ELSE <<>>]
                /\ mem' = [mem EXCEPT ![k] = <<>>]
           ELSE /\ rbuf' = [q \in Procs |-> <<>>]
                /\ UNCHANGED mem
        /\ UNCHANGED <<memBucket, histVars>>

\* ------------------------------------------------------------------------
\* The system
\* ------------------------------------------------------------------------
Next ==
    \E p \in Procs :
        \/ CallCreate(p)
        \/ CallDelete(p)
        \/ CallOpen(p)
        \/ CallList(p)
        \/ CreateMkdirAll(p)
        \/ CreateTempFile(p)
        \/ CreateCopy(p)
        \/ CreateRename(p)
        \/ CreateReopen(p)
        \/ CreateStat(p)
        \/ CreateFault(p)
        \/ DeleteStat(p)
        \/ DeleteRemove(p)
        \/ OpenStat(p)
        \/ OpenOpen(p)
        \/ OpenRead(p)
        \/ ListWalk(p)
        \/ MemCreate(p)
        \/ MemDelete(p)
        \/ MemOpen(p)

Spec == Init /\ [][Next]_vars

\* ------------------------------------------------------------------------
\* Sort strategies (lib/sort.go)
\* ------------------------------------------------------------------------
\* the longest collection of files sorted; sort.Sort sorts a collection of
\* fewer than seven elements by insertion alone
MaxLen == 3

\* the latest modification time the backend stamps
MaxTime == 2

NoOpStrategy == [kind |-> "noOp", isAscending |-> TRUE]

ByKeyStrategy(ascending) == [kind |-> "byKey", isAscending |-> ascending]

ByLastModifiedStrategy(ascending) ==
    [kind |-> "byLastModified", isAscending |-> ascending]

Strategies ==
    {NoOpStrategy} \cup {ByKeyStrategy(a) : a \in BOOLEAN}
                   \cup {ByLastModifiedStrategy(a) : a \in BOOLEAN}

\* a Less whose descending branch compares as the ascending one does
Less_IgnoresDirection(s, fs, i, j) ==
    IF s.kind = "byKey" THEN StrLess(fs[i].key, fs[j].key)
    ELSE fs[i].lastModified < fs[j].lastModified

\* byKey.Less and byLastModified.Less: whether the file at i sorts before the
\* file at j; descending by key is iKey >= jKey
Less(s, fs, i, j) ==
    IF s.kind = "byKey"
    THEN IF s.isAscending THEN StrLess(fs[i].key, fs[j].key)
         ELSE ~StrLess(fs[i].key, fs[j].key)
    ELSE IF s.isAscending THEN fs[i].lastModified < fs[j].lastModified
         ELSE fs[i].lastModified > fs[j].lastModified

\* baseSortStrategy.Swap
Swap(fs, i, j) == [fs EXCEPT ![i] = fs[j], ![j] = fs[i]]

RECURSIVE Insert(_, _, _)
\* the inner loop of insertion: for j := i; j > a && Less(j, j-1); j--
Insert(s, fs, j) ==
    IF j > 1 /\ Less(s, fs, j, j - 1)
    THEN Insert(s, Swap(fs, j, j - 1), j - 1)
    ELSE fs

RECURSIVE InsertionSort(_, _, _)
\* sort.Sort on a short collection: for i := a + 1; i < b; i++
InsertionSort(s, fs, i) ==
    IF i > Len(fs) THEN fs
    ELSE InsertionSort(s, Insert(s, fs, i), i + 1)

\* SortStrategy.Sort: the no-op strategy leaves the order, the others sort.Sort
Sort(s, fs) ==
    IF s.kind = "noOp" THEN fs ELSE InsertionSort(s, fs, 2)

\* ------------------------------------------------------------------------
\* Listing with a sort strategy, calls one after another
\* ------------------------------------------------------------------------
\* the prefixes listed: everything, a key, a directory with its separator,
\* and two that no key starts with
ListPrefixes == {<<>>, <<"a">>, <<"a", "/">>, <<"b">>, <<"c", "/">>}

ListLimits == {0, 1, 2, DefaultLimit}

\* the content the listed objects are created with
ListData == <<3>>

\* a List that takes a missing bucket directory for an error of os.Stat
StatMissing_Never(f) == FALSE

\* os.Stat(bucketDir) fails and os.IsNotExist(err)
StatMissing(f) == IsNotExist(LookupErr(f, BucketDir))

\* sortStrategy.Sort(files), then files[:limit] when limit < len(files)
Cut(s, fs, limit) ==
    LET sorted == Sort(s, fs)
    IN  IF limit < Len(sorted) THEN SubSeq(sorted, 1, limit) ELSE sorted

\* diskFS.List on tree f with modification times mt: the empty collection
\* when the bucket directory is missing, else the files listWalk appends in
\* walk order, sorted, cut to the limit
DiskList(f, mt, prefix, limit, s) ==
    LET prefixGlob == Join2(BucketDir, prefix)
        hits   == {q \in Below(f, BucketDir) \cup {BucketDir} : listWalk(f, q, prefixGlob)}
        walked == WalkOrder(hits)
        fl     == [i \in 1..Len(walked) |->
                      [key |-> WalkKey(walked[i]), lastModified |-> mt[f[walked[i]]]]]
    IN  IF StatMissing(f) THEN [err |-> "nil", files |-> <<>>]
        ELSE IF LookupErr(f, BucketDir) # "ok" THEN [err |-> "error", files |-> <<>>]
        ELSE [err |-> "nil", files |-> Cut(s, fl, limit)]

\* the orders in which ranging over a Go map may give the keys of S
Orders(S) ==
    {o \in [1..Cardinality(S) -> S] : \A i, j \in 1..Cardinality(S) : i # j => o[i] # o[j]}

\* MemoryFS.List, the range over the bucket's map giving its keys in order o:
\* the files whose key has the prefix, sorted, cut to the limit
MemList(m, hasBucket, mt, o, prefix, limit, s) ==
    LET hit == SelectSeq(o, LAMBDA k : HasPrefix(k, prefix))
        fl  == [i \in 1..Len(hit) |-> [key |-> hit[i], lastModified |-> mt[hit[i]]]]
    IN  IF ~hasBucket THEN [err |-> "nil", files |-> <<>>]
        ELSE [err |-> "nil", files |-> Cut(s, fl, limit)]

\* the times the backend may stamp next: the clock does not run backwards,
\* and two writes may fall on one tick
Stamps == {t \in {now, now + 1} : 1 <= t /\ t <= MaxTime}

\* diskFS.Create(bucket, k, data) from call to return at time t, no other
\* caller's step in between, the medium failing no system call
CreateRun(f, d, mt, k, data, t) ==
    LET to   == pathForFile(k)
        f1   == MkdirAllDo(f, Dir(to))
        name == TempName(f1, BucketDir)
        ino  == NewIno(d)
        f2   == [q \in DOMAIN f1 \cup {name} |-> IF q = name THEN ino ELSE f1[q]]
        d2   == [i \in DOMAIN d \cup {ino} |-> IF i = ino THEN data ELSE d[i]]
        mt2  == [i \in DOMAIN mt \cup {ino} |-> IF i = ino THEN t ELSE mt[i]]
        f3   == RenameDo(f2, name, to)
        keep == {f3[q] : q \in DOMAIN f3} \ {0}
    IN  IF MkdirAllErr(f, Dir(to))
        THEN [err |-> "error", tree |-> f, data |-> d, mtime |-> mt]
        ELSE IF name = <<>>
        THEN [err |-> "error", tree |-> f1, data |-> d, mtime |-> mt]
        ELSE IF RenameErr(f2, name, to)
        THEN [err |-> "rename failed", tree |-> f2, data |-> d2, mtime |-> mt2]
        ELSE [err |-> "nil", tree |-> f3,
              data  |-> [i \in keep |-> d2[i]],
              mtime |-> [i \in keep |-> mt2[i]]]

\* diskFS.Delete(bucket, k) from call to return, no other caller's step in
\* between
DeleteRun(f, k) ==
    LET r == DeleteStatResult(LookupErr(f, pathForFile(k)))
    IN  IF r # "" THEN [err |-> r, tree |-> f]
        ELSE IF RemoveErr(f, pathForFile(k)) THEN [err |-> "removal failed", tree |-> f]
        ELSE [err |-> "nil", tree |-> RemoveDo(f, pathForFile(k))]

\* the one caller's call c returns r
SeqCall(c, r) ==
    /\ call' = [q \in Procs |-> IF q = First THEN c ELSE NoCall]
    /\ ret' = [q \in Procs |-> IF q = First THEN r ELSE "none"]
    /\ UNCHANGED <<engine, pc, fd, off, tmp, rbuf, faulted, overlapped, histVars, before,
                   apartVars>>

\* a List changes nothing, so the calls that could follow it are the calls
\* that could stand in its place: a behaviour ends with its List
SeqCreate ==
    /\ call[First].op # "List"
    /\ nops < MaxOps
    /\ nops' = nops + 1
    /\ \E k \in Keys, t \in Stamps :
        /\ now' = t
        /\ IF engine = "disk"
           THEN LET r == CreateRun(fsys, idata, mtime, k, ListData, t)
                IN  /\ SeqCall([op |-> "Create", key |-> k, data |-> ListData, limit |-> 0],
                               r.err)
                    /\ fsys' = r.tree
                    /\ idata' = r.data
                    /\ mtime' = r.mtime
                    /\ UNCHANGED memVars
           ELSE /\ SeqCall([op |-> "Create", key |-> k, data |-> ListData, limit |-> 0],
                           "nil")
                /\ mem' = [q \in DOMAIN mem \cup {k} |-> IF q = k THEN ListData ELSE mem[q]]
                /\ memBucket' = TRUE
                /\ mtime' = [q \in DOMAIN mtime \cup {k} |-> IF q = k THEN t ELSE mtime[q]]
                /\ UNCHANGED diskVars
    /\ files' = <<>>
    /\ listed' = [q \in Procs |-> <<>>]

SeqDelete ==
    /\ call[First].op # "List"
    /\ nops < MaxOps
    /\ nops' = nops + 1
    /\ \E k \in Keys :
        IF engine = "disk"
        THEN LET r    == DeleteRun(fsys, k)
                 keep == {r.tree[q] : q \in DOMAIN r.tree} \ {0}
             IN  /\ SeqCall([op |-> "Delete", key |-> k, data |-> <<>>, limit |-> 0], r.err)
                 /\ fsys' = r.tree
                 /\ idata' = [i \in keep |-> idata[i]]
                 /\ mtime' = [i \in keep |-> mtime[i]]
                 /\ UNCHANGED memVars
        ELSE /\ SeqCall([op |-> "Delete", key |-> k, data |-> <<>>, limit |-> 0], "nil")
             /\ mem' = IF memBucket THEN [q \in DOMAIN mem \ {k} |-> mem[q]] ELSE mem
             /\ mtime' = IF memBucket THEN [q \in DOMAIN mtime \ {k} |-> mtime[q]] ELSE mtime
             /\ UNCHANGED <<diskVars, memBucket>>
    /\ files' = <<>>
    /\ listed' = [q \in Procs |-> <<>>]
    /\ UNCHANGED now

SeqList ==
    /\ call[First].op # "List"
    /\ \E prefix \in ListPrefixes, limit \in ListLimits, s \in Strategies :
        \E o \in Orders(DOMAIN mem) :
            LET r == IF engine = "disk"
                     THEN DiskList(fsys, mtime, prefix, limit, s)
                     ELSE MemList(mem, memBucket, mtime, o, prefix, limit, s)
            IN  /\ SeqCall([op |-> "List", key |-> prefix, data |-> <<>>,
                            limit |-> limit, sort |-> s], r.err)
                /\ files' = r.files
                /\ listed' = [q \in Procs |->
                                IF q = First THEN [i \in 1..Len(r.files) |-> r.files[i].key]
                                ELSE <<>>]
    /\ UNCHANGED <<diskVars, memVars, mtime, now, nops>>

\* an empty store that no caller has called yet
StoreIdle ==
    /\ fsys = EmptyTree
    /\ idata = << >>
    /\ lastPub = [k \in Keys |-> Absent]
    /\ pub = [k \in Keys |-> {}]
    /\ acked = [k \in Keys |-> "none"]
    /\ mem = << >>
    /\ memBucket = FALSE
    /\ pc = [p \in Procs |-> "idle"]
    /\ fd = [p \in Procs |-> 0]
    /\ off = [p \in Procs |-> 0]
    /\ tmp = [p \in Procs |-> <<>>]
    /\ rbuf = [p \in Procs |-> <<>>]
    /\ listed = [p \in Procs |-> <<>>]
    /\ nops = 0
    /\ faulted = FALSE
    /\ overlapped = FALSE
    /\ before = [p \in Procs |-> NoBefore]

ListInit ==
    /\ engine \in {"disk", "memory"}
    /\ StoreIdle
    /\ call = [p \in Procs |-> NoCall]
    /\ ret = [p \in Procs |-> "none"]
    /\ ListIdle
    /\ ApartIdle

ListNext == SeqCreate \/ SeqDelete \/ SeqList

ListSpec == ListInit /\ [][ListNext]_vars

\* ------------------------------------------------------------------------
\* A sort strategy applied to a collection of files
\* ------------------------------------------------------------------------
\* the files of the collections sorted
FileValues == [key : Keys, lastModified : 1..MaxTime]

\* the collections handed to Sort: every order, equal keys and equal times
\* among them
Collections == UNION {[1..n -> FileValues] : n \in 0..MaxLen}

\* a caller holds a collection of files and a strategy
SortInit ==
    /\ engine = "disk"
    /\ StoreIdle
    /\ mtime = << >>
    /\ now = 0
    /\ files \in Collections
    /\ \E s \in Strategies :
          call = [p \in Procs |->
                    IF p = First
                    THEN [op |-> "Sort", key |-> <<>>, data |-> <<>>, limit |-> 0, sort |-> s]
                    ELSE NoCall]
    /\ ret = [p \in Procs |-> "none"]
    /\ ApartIdle

\* strategy.Sort(files): the collection is sorted in place
SortFiles ==
    /\ call[First].op = "Sort"
    /\ ret[First] = "none"
    /\ files' = Sort(call[First].sort, files)
    /\ ret' = [ret EXCEPT ![First] = "nil"]
    /\ UNCHANGED <<engine, diskVars, memVars, pc, call, fd, off, tmp, rbuf, listed, nops,
                   faulted, overlapped, histVars, before, mtime, now, apartVars>>

SortNext == SortFiles

SortSpec == SortInit /\ [][SortNext]_vars

\* ------------------------------------------------------------------------
\* The sort parameter: createSortStrategy and EncodeParam
\* ------------------------------------------------------------------------
\* the most pieces a sort parameter is put together from
MaxAtoms == 3

OrderKey == <<"k", "e", "y">>

OrderLastModified == <<"l", "a", "s", "t", "M", "o", "d", "i", "f", "i", "e", "d">>

OrderAscending == <<"+">>

OrderDescending == <<"-">>

\* the pieces of the sort parameters tried: the markers, the criteria, a
\* blank (what a "+" of a query string is decoded to), a part of a criterion
\* and a criterion in another case
Atoms == <<OrderAscending, OrderDescending, OrderKey, OrderLastModified,
           <<" ">>, <<"k">>, <<"K", "e", "y">>>>

RECURSIVE Flatten(_)
Flatten(ss) == IF ss = <<>> THEN <<>> ELSE Head(ss) \o Flatten(Tail(ss))

\* the sort parameters tried: up to MaxAtoms pieces in a row
Tokens ==
    {Flatten([i \in 1..Len(c) |-> Atoms[c[i]]]) :
        c \in UNION {[1..n -> 1..Len(Atoms)] : n \in 0..MaxAtoms}}

\* a createSortStrategy that takes an unknown criterion for no sorting
createSortStrategy_Fallback(value) ==
    IF value = <<>> THEN [err |-> "nil", strategy |-> NoOpStrategy]
    ELSE IF Len(value) = 1 THEN [err |-> "InvalidParam", strategy |-> NoStrategy]
    ELSE LET order     == SubSeq(value, 1, 1)
             criterion == SubSeq(value, 2, Len(value))
         IN  IF order \notin {OrderAscending, OrderDescending}
             THEN [err |-> "InvalidParam", strategy |-> NoStrategy]
             ELSE IF criterion = OrderKey
             THEN [err |-> "nil", strategy |-> ByKeyStrategy(order = OrderAscending)]
             ELSE IF criterion = OrderLastModified
             THEN [err |-> "nil", strategy |-> ByLastModifiedStrategy(order = OrderAscending)]
             ELSE [err |-> "nil", strategy |-> NoOpStrategy]

\* createSortStrategy(value): the no-op strategy for the empty string,
\* ErrInvalidParam for one character, for a first character other than "+"
\* and "-" and for a rest other than "key" and "lastModified"
createSortStrategy(value) ==
    IF value = <<>> THEN [err |-> "nil", strategy |-> NoOpStrategy]
    ELSE IF Len(value) = 1 THEN [err |-> "InvalidParam", strategy |-> NoStrategy]
    ELSE LET order     == SubSeq(value, 1, 1)
             criterion == SubSeq(value, 2, Len(value))
         IN  IF order \notin {OrderAscending, OrderDescending}
             THEN [err |-> "InvalidParam", strategy |-> NoStrategy]
             ELSE IF criterion = OrderKey
             THEN [err |-> "nil", strategy |-> ByKeyStrategy(order = OrderAscending)]
             ELSE IF criterion = OrderLastModified
             THEN [err |-> "nil", strategy |-> ByLastModifiedStrategy(order = OrderAscending)]
             ELSE [err |-> "InvalidParam", strategy |-> NoStrategy]

\* an EncodeParam with the order markers the wrong way round
EncodeParam_Swapped(s) ==
    IF s.kind = "noOp" THEN <<>>
    ELSE (IF s.isAscending THEN OrderDescending ELSE OrderAscending)
            \o (IF s.kind = "byKey" THEN OrderKey ELSE OrderLastModified)

\* noOpStrategy.EncodeParam, byKey.EncodeParam, byLastModified.EncodeParam:
\* fmt.Sprintf("%s%s", order, criterion), "" for the no-op strategy
EncodeParam(s) ==
    IF s.kind = "noOp" THEN <<>>
    ELSE (IF s.isAscending THEN OrderAscending ELSE OrderDescending)
            \o (IF s.kind = "byKey" THEN OrderKey ELSE OrderLastModified)

\* what decoding and encoding a sort parameter leave alone
paramRest == <<engine, diskVars, memVars, pc, call, fd, off, tmp, rbuf, listed, ret, nops,
               faulted, overlapped, histVars, before, listVars, handlerVars, hashVars, todo>>

\* a request carries a sort parameter, or a client holds a strategy
ParamInit ==
    /\ engine = "disk"
    /\ StoreIdle
    /\ call = [p \in Procs |-> NoCall]
    /\ ret = [p \in Procs |-> "none"]
    /\ ListIdle
    /\ HandlerIdle
    /\ HashIdle
    /\ WalkIdle
    /\ sortErr = "none"
    /\ trip = 0
    /\ \/ /\ sortValue \in Tokens
          /\ sortStrategy = NoStrategy
          /\ given = [from |-> "value", value |-> sortValue, strategy |-> NoStrategy]
       \/ /\ sortStrategy \in Strategies
          /\ sortValue = <<>>
          /\ given = [from |-> "strategy", value |-> <<>>, strategy |-> sortStrategy]

\* sortStrategy, err := createSortStrategy(sortValue)
Decode ==
    /\ \/ given.from = "value" /\ trip = 0
       \/ given.from = "strategy" /\ trip = 1
    /\ sortStrategy' = createSortStrategy(sortValue).strategy
    /\ sortErr' = createSortStrategy(sortValue).err
    /\ trip' = trip + 1
    /\ UNCHANGED <<sortValue, given, paramRest>>

\* sortValue = sortStrategy.EncodeParam()
Encode ==
    /\ \/ given.from = "strategy" /\ trip = 0
       \/ given.from = "value" /\ trip = 1 /\ sortErr = "nil"
    /\ sortValue' = EncodeParam(sortStrategy)
    /\ trip' = trip + 1
    /\ UNCHANGED <<sortStrategy, sortErr, given, paramRest>>

ParamNext == Decode \/ Encode

ParamSpec == ParamInit /\ [][ParamNext]_vars

\* ------------------------------------------------------------------------
\* The registry of buckets loaded from a policy directory
\* ------------------------------------------------------------------------
\* the most entries of a policy directory
MaxFiles == 3

\* the bucket names policies declare and callers ask for
PolicyNames == {BucketName, <<"y">>}

\* the entries of a policy directory: a file with the extension .entpolicy
\* declaring a name and an owner, a file with another extension, and a
\* sub-directory, which holds such a file
PolicyEntries == [kind : {"policy", "other", "dir"}, name : PolicyNames, owner : {1, 2}]

\* the policy directories, their entries in the lexical order filepath.Walk
\* visits them in
PolicyDirs == UNION {[1..n -> PolicyEntries] : n \in 0..MaxFiles}

\* a loadBucket that keeps the bucket a name already has
loadBucket_KeepsFirst(bs, e) ==
    IF e.name \in DOMAIN bs THEN bs
    ELSE [n \in DOMAIN bs \cup {e.name} |->
            IF n = e.name THEN [name |-> e.name, owner |-> e.owner] ELSE bs[n]]

\* diskProvider.loadBucket: p.buckets[b.Name] = b for the Bucket decoded from
\* the file
loadBucket(bs, e) ==
    [n \in DOMAIN bs \cup {e.name} |->
        IF n = e.name THEN [name |-> e.name, owner |-> e.owner] ELSE bs[n]]

\* diskProvider.walk over the entries from the i-th on: a sub-directory is
\* skipped, a file with another extension is passed over, a policy is loaded
RECURSIVE walk(_, _, _)
walk(bs, dir, i) ==
    IF i > Len(dir) THEN bs
    ELSE IF dir[i].kind = "policy" THEN walk(loadBucket(bs, dir[i]), dir, i + 1)
    ELSE walk(bs, dir, i + 1)

\* NewDiskProvider(dir): the map filepath.Walk(p.dir, p.walk) leaves
NewDiskProvider(dir) == walk(<< >>, dir, 1)

\* a registry that has a bucket for every name
Get_KnowsAll(known, name) == "nil"

\* diskProvider.Get(name): ErrBucketNotFound for a name the map lacks
Get(known, name) == IF name \in DOMAIN known THEN "nil" ELSE "BucketNotFound"

\* a provider has been made on a policy directory
RegistryInit ==
    /\ engine = "disk"
    /\ StoreIdle
    /\ call = [p \in Procs |-> NoCall]
    /\ ret = [p \in Procs |-> "none"]
    /\ ListIdle
    /\ ParamIdle
    /\ HashIdle
    /\ WalkIdle
    /\ policies \in PolicyDirs
    /\ buckets = NewDiskProvider(policies)
    /\ req = NoRequest
    /\ invoked = <<>>
    /\ resp = NoResponse

\* what no call of the provider changes
registryRest == <<engine, diskVars, memVars, pc, call, fd, off, tmp, rbuf, listed, ret, nops,
                  faulted, overlapped, histVars, before, listVars, paramVars, policies,
                  buckets, hashVars, todo>>

\* b, err := p.Get(name)
ProviderGet ==
    /\ \E name \in PolicyNames \cup {<<"z">>} :
        /\ req' = [NoRequest EXCEPT !.handler = "Get", !.bucket = name]
        /\ resp' = [err |-> Get(buckets, name),
                    buckets |-> IF name \in DOMAIN buckets THEN <<buckets[name]>> ELSE <<>>]
    /\ invoked' = <<"Get">>
    /\ UNCHANGED registryRest

\* bs, err := p.List(): the buckets of the map in the order the range gives
ProviderList ==
    /\ \E o \in Orders(DOMAIN buckets) :
        /\ req' = [NoRequest EXCEPT !.handler = "List"]
        /\ resp' = [err |-> "nil", buckets |-> [i \in 1..Len(o) |-> buckets[o[i]]]]
    /\ invoked' = <<"List">>
    /\ UNCHANGED registryRest

RegistryNext == ProviderGet \/ ProviderList

RegistrySpec == RegistryInit /\ [][RegistryNext]_vars

\* ------------------------------------------------------------------------
\* The request handlers of the server
\* ------------------------------------------------------------------------
\* a name no bucket of any registry has
UnknownName == <<"y">>

\* the bucket names requests ask for
RequestNames == {BucketName, UnknownName}

\* the policy directories the server is started on: an empty one, and one
\* with the policy of the bucket
ServerDirs == {<<>>, <<[kind |-> "policy", name |-> BucketName, owner |-> 1]>>}

\* the limit parameters requests carry
LimitValues == {<<>>, <<"0">>, <<"2">>, <<"x">>}

\* the prefix parameters requests carry
RequestPrefixes == {<<>>, <<"a">>}

\* the sort parameters requests carry
RequestSorts == {<<>>, <<"-">> \o OrderKey, OrderKey}

Digits == <<"0", "1", "2", "3", "4", "5", "6", "7", "8", "9">>

DigitOf(c) == (CHOOSE i \in 1..Len(Digits) : Digits[i] = c) - 1

RECURSIVE ParseDigits(_, _)
ParseDigits(v, acc) ==
    IF v = <<>> THEN acc ELSE ParseDigits(Tail(v), 10 * acc + DigitOf(Head(v)))

\* strconv.ParseUint(limitValue, 10, 64): an error for the empty string and
\* for a character that is no digit
ParseUint(v) ==
    IF v = <<>> \/ \E i \in 1..Len(v) : \A d \in 1..Len(Digits) : Digits[d] # v[i]
    THEN [err |-> "error", value |-> 0]
    ELSE [err |-> "nil", value |-> ParseDigits(v, 0)]

\* errorStatusCode(err), and the statuses of the answers without an error
errorStatusCode(err) ==
    CASE err = "nil" -> 200
      [] err \in {"BucketNotFound", "FileNotFound"} -> 404
      [] err = "InvalidParam" -> 400
      [] OTHER -> 500

\* respondError, respondHEAD, respondJSON: the handler called the operations
\* ops for request r and answers with the status of err
Respond(r, ops, err, okCode) ==
    /\ req' = r
    /\ invoked' = ops
    /\ resp' = [code |-> IF err = "nil" THEN okCode ELSE errorStatusCode(err), err |-> err]
    /\ UNCHANGED <<engine, memVars, pc, call, fd, off, tmp, rbuf, listed, ret, faulted,
                   overlapped, histVars, before, paramVars, policies, buckets, hashVars, todo>>

\* handleCreate: p.Get, fs.Create, writeBlobHeaders
HandleCreate ==
    /\ nops < MaxOps
    /\ nops' = nops + 1
    /\ files' = <<>>
    /\ \E b \in RequestNames, k \in Keys, t \in Stamps :
        LET r == [NoRequest EXCEPT !.handler = "create", !.bucket = b, !.key = k]
        IN  IF Get(buckets, b) # "nil"
            THEN /\ Respond(r, <<"Get">>, Get(buckets, b), 201)
                 /\ UNCHANGED <<diskVars, mtime, now>>
            ELSE \E c \in {CreateRun(fsys, idata, mtime, k, ListData, t)} :
                     /\ Respond(r, <<"Get", "Create">>, c.err, 201)
                     /\ fsys' = c.tree
                     /\ idata' = c.data
                     /\ mtime' = c.mtime
                     /\ now' = t

\* handleDelete: p.Get, fs.Open, fs.Delete
HandleDelete ==
    /\ nops < MaxOps
    /\ nops' = nops + 1
    /\ files' = <<>>
    /\ UNCHANGED now
    /\ \E b \in RequestNames, k \in Keys :
        LET r == [NoRequest EXCEPT !.handler = "delete", !.bucket = b, !.key = k]
            o == DiskOpen(fsys, idata, k)
            d == DeleteRun(fsys, k)
            keep == {d.tree[q] : q \in DOMAIN d.tree} \ {0}
        IN  IF Get(buckets, b) # "nil"
            THEN /\ Respond(r, <<"Get">>, Get(buckets, b), 200)
                 /\ UNCHANGED <<diskVars, mtime>>
            ELSE IF o.err # "nil"
            THEN /\ Respond(r, <<"Get", "Open">>, o.err, 200)
                 /\ UNCHANGED <<diskVars, mtime>>
            ELSE /\ Respond(r, <<"Get", "Open", "Delete">>, d.err, 200)
                 /\ fsys' = d.tree
                 /\ idata' = [i \in keep |-> idata[i]]
                 /\ mtime' = [i \in keep |-> mtime[i]]

\* handleExists: p.Get, fs.Open, writeBlobHeaders, respondHEAD
HandleExists ==
    /\ files' = <<>>
    /\ UNCHANGED <<diskVars, mtime, now, nops>>
    /\ \E b \in RequestNames, k \in Keys :
        LET r == [NoRequest EXCEPT !.handler = "exists", !.bucket = b, !.key = k]
        IN  IF Get(buckets, b) # "nil"
            THEN Respond(r, <<"Get">>, Get(buckets, b), 200)
            ELSE Respond(r, <<"Get", "Open">>, DiskOpen(fsys, idata, k).err, 200)

\* handleGet: p.Get, fs.Open, writeBlobHeaders, http.ServeContent
HandleGet ==
    /\ files' = <<>>
    /\ UNCHANGED <<diskVars, mtime, now, nops>>
    /\ \E b \in RequestNames, k \in Keys :
        LET r == [NoRequest EXCEPT !.handler = "get", !.bucket = b, !.key = k]
        IN  IF Get(buckets, b) # "nil"
            THEN Respond(r, <<"Get">>, Get(buckets, b), 200)
            ELSE Respond(r, <<"Get", "Open">>, DiskOpen(fsys, idata, k).err, 200)

\* handleFileList: p.Get, strconv.ParseUint, createSortStrategy, fs.List
HandleFileList ==
    /\ UNCHANGED <<diskVars, mtime, now, nops>>
    /\ \E b \in RequestNames, lv \in LimitValues, prefix \in RequestPrefixes,
          sv \in RequestSorts :
        LET r == [NoRequest EXCEPT !.handler = "fileList", !.bucket = b, !.limitValue = lv,
                                   !.prefix = prefix, !.sortValue = sv]
            limit == IF lv = <<>> THEN DefaultLimit ELSE ParseUint(lv).value
            s == createSortStrategy(sv)
            l == DiskList(fsys, mtime, prefix, limit, s.strategy)
        IN  IF Get(buckets, b) # "nil"
            THEN /\ Respond(r, <<"Get">>, Get(buckets, b), 200)
                 /\ files' = <<>>
            ELSE IF lv # <<>> /\ ParseUint(lv).err # "nil"
            THEN /\ Respond(r, <<"Get">>, "InvalidParam", 200)
                 /\ files' = <<>>
            ELSE IF s.err # "nil"
            THEN /\ Respond(r, <<"Get">>, s.err, 200)
                 /\ files' = <<>>
            ELSE /\ Respond(r, <<"Get", "List">>, l.err, 200)
                 /\ files' = l.files

\* NewDiskProvider has loaded the policies of a directory: the server
\* starts on an empty store
HandlerInit ==
    /\ engine = "disk"
    /\ StoreIdle
    /\ call = [p \in Procs |-> NoCall]
    /\ ret = [p \in Procs |-> "none"]
    /\ ListIdle
    /\ ParamIdle
    /\ HashIdle
    /\ WalkIdle
    /\ policies \in ServerDirs
    /\ buckets = NewDiskProvider(policies)
    /\ req = NoRequest
    /\ invoked = <<>>
    /\ resp = NoResponse

HandlerNext ==
    \/ HandleCreate
    \/ HandleDelete
    \/ HandleExists
    \/ HandleGet
    \/ HandleFileList

HandlerSpec == HandlerInit /\ [][HandlerNext]_vars

\* ------------------------------------------------------------------------
\* File handles of the disk engine and their hashes
\* ------------------------------------------------------------------------
\* the contents stored: the empty one, two of one length, a longer one
HashContents == {<<>>, <<3>>, <<4>>, <<1, 2>>}

\* the bytes callers pass to Write
WriteData == {<<4>>, <<1, 2>>}

\* sha1: hash.Sum(nil) after the bytes b were written since the last Reset;
\* no two byte strings have one digest
Sum(b) == <<"sha1", b>>

\* newFile(f, key), f an *os.File of inode ino: lastModified is left the zero
\* time (0); ops is the history of the calls on the handle, given the content
\* it was made on
newFile(ino, key) ==
    [key |-> key, ino |-> ino, hash |-> <<>>, hashed |-> 0, pos |-> 0,
     lastModified |-> 0, closed |-> FALSE, from |-> "Open", given |-> <<>>, ops |-> <<>>]

\* a Hash that trusts its accumulator without looking at the size
Hash_Cached(f, d) ==
    [file |-> f, err |-> "nil", sum |-> Sum(f.hash), cached |-> TRUE]

\* file.Hash on the inodes d: the digest accumulated so far if hashed is the
\* size f.Stat reports, else the accumulator is reset and the stream is read
\* again from its start to its end
Hash(f, d) ==
    IF f.hashed = Len(d[f.ino])
    THEN [file |-> f, err |-> "nil", sum |-> Sum(f.hash), cached |-> TRUE]
    ELSE [file |-> [f EXCEPT !.hash = d[f.ino], !.hashed = Len(d[f.ino]),
                             !.pos = Len(d[f.ino])],
          err |-> "nil", sum |-> Sum(d[f.ino]), cached |-> FALSE]

\* file.Write(p): the accumulator and the counter take p, then File.Write
\* fails, the descriptor of os.Open being read-only
Write(f, p) ==
    [file |-> [f EXCEPT !.hash = @ \o p, !.hashed = @ + Len(p)], err |-> "error"]

\* the inodes the open handles hs keep alive
Held(hs) == {hs[i].ino : i \in 1..Len(hs)}

\* an operation on the store or on a handle of it has returned
HashStep(ops) ==
    /\ lastOp' = ops
    /\ UNCHANGED <<engine, memVars, pc, call, fd, off, tmp, rbuf, listed, ret, faulted,
                   overlapped, histVars, before, files, paramVars, handlerVars, todo>>

\* f, err := fs.Create(bucket, k, r): io.Copy(f, r) goes through file.Write
\* when r has a WriteTo, and through the ReadFrom of the embedded *os.File,
\* past file.Write, when r has none and the library gives *os.File one; the
\* handle returned is on the file os.Open(dst) gives
FileCreate ==
    /\ nops < MaxOps
    /\ nops' = nops + 1
    /\ UNCHANGED hashRet
    /\ \E k \in Keys, data \in HashContents, t \in Stamps, viaWrite \in BOOLEAN :
      \E r \in {CreateRun(fsys, idata, mtime, k, data, t)} :
        LET ino  == r.tree[pathForFile(k)]
            f    == [newFile(ino, k) EXCEPT !.hash = IF viaWrite THEN data ELSE <<>>,
                                            !.hashed = IF viaWrite THEN Len(data) ELSE 0,
                                            !.lastModified = r.mtime[ino],
                                            !.from = "Create", !.given = data]
            keep == DOMAIN r.data \cup (Held(handles) \cap DOMAIN idata)
        IN  /\ fsys' = r.tree
            /\ idata' = [i \in keep |-> IF i \in DOMAIN r.data THEN r.data[i] ELSE idata[i]]
            /\ mtime' = [i \in keep |-> IF i \in DOMAIN r.mtime THEN r.mtime[i] ELSE mtime[i]]
            /\ now' = t
            /\ handles' = IF r.err = "nil" THEN Append(handles, f) ELSE handles
            /\ HashStep([op |-> "Create", h |-> IF r.err = "nil" THEN Len(handles) + 1 ELSE 0,
                         err |-> r.err])

\* f, err := fs.Open(bucket, k)
FileOpen ==
    /\ nops < MaxOps
    /\ nops' = nops + 1
    /\ UNCHANGED <<diskVars, mtime, now, hashRet>>
    /\ \E k \in Keys :
        LET o == DiskOpen(fsys, idata, k)
        IN  /\ handles' = IF o.err = "nil"
                          THEN Append(handles, newFile(fsys[pathForFile(k)], k))
                          ELSE handles
            /\ HashStep([op |-> "Open", h |-> IF o.err = "nil" THEN Len(handles) + 1 ELSE 0,
                         err |-> o.err])

\* sum, err := f.Hash() on the handle h
FileHash ==
    /\ UNCHANGED <<diskVars, mtime, now, nops>>
    /\ \E h \in 1..Len(handles) :
        LET r == Hash(handles[h], idata)
        IN  /\ handles' = [handles EXCEPT ![h] = r.file]
            /\ hashRet' = [h |-> h, err |-> r.err, sum |-> r.sum, cached |-> r.cached,
                           after |-> lastOp]
            /\ HashStep([op |-> "Hash", h |-> h, err |-> r.err])

\* n, err := f.Write(p) on the handle h
FileWrite ==
    /\ nops < MaxOps
    /\ nops' = nops + 1
    /\ UNCHANGED <<diskVars, mtime, now, hashRet>>
    /\ \E h \in 1..Len(handles), p \in WriteData :
        LET r == Write(handles[h], p)
        IN  /\ handles' = [handles EXCEPT ![h] = r.file]
            /\ HashStep([op |-> "Write", h |-> h, err |-> r.err])

HashInit ==
    /\ engine = "disk"
    /\ StoreIdle
    /\ call = [p \in Procs |-> NoCall]
    /\ ret = [p \in Procs |-> "none"]
    /\ ListIdle
    /\ ApartIdle

HashNext == FileCreate \/ FileOpen \/ FileHash \/ FileWrite

HashSpec == HashInit /\ [][HashNext]_vars

\* ------------------------------------------------------------------------
\* The calls on one handle of Open or List, on both engines
\* ------------------------------------------------------------------------
\* the most calls made on one handle
MaxHandleOps == 3

\* the handle Open, or List for an entry, gives on key k: on disk newFile on
\* the descriptor of os.Open, with the modification time only from listWalk;
\* in memory the stored *MemoryFile itself, with the time and the hash of its
\* creation
HandleOf(k, from) ==
    IF engine = "disk"
    THEN [newFile(fsys[pathForFile(k)], k) EXCEPT
            !.lastModified = IF from = "List" THEN mtime[fsys[pathForFile(k)]] ELSE 0,
            !.from = from, !.given = idata[fsys[pathForFile(k)]]]
    ELSE [newFile(0, k) EXCEPT !.hash = mem[k], !.hashed = Len(mem[k]),
                               !.lastModified = mtime[k], !.from = from, !.given = mem[k]]

\* f, err := fs.Open(bucket, k), or f one of the files of fs.List
OpenHandle ==
    /\ handles = <<>>
    /\ \E k \in Keys, from \in {"Open", "List"} :
        /\ OpenNow(k).err = "nil"
        /\ handles' = <<HandleOf(k, from)>>
        /\ lastOp' = [op |-> from, h |-> 1, err |-> "nil"]
    /\ rbuf' = [q \in Procs |-> <<>>]
    /\ UNCHANGED <<engine, diskVars, memVars, pc, call, fd, off, tmp, listed, ret, nops,
                   faulted, overlapped, histVars, before, listVars, paramVars, handlerVars, todo,
                   hashRet>>

\* the call op on the handle has left it as f and returned err; a call on a
\* closed descriptor returns an error and changes nothing
HandleStep(op, f, err) ==
    /\ handles # <<>>
    /\ Len(handles[1].ops) < MaxHandleOps
    /\ handles' = <<[f EXCEPT !.ops = Append(@, op)]>>
    /\ lastOp' = [op |-> op, h |-> 1, err |-> err]
    /\ UNCHANGED <<engine, diskVars, memBucket, pc, call, fd, off, tmp, listed, ret, nops,
                   faulted, overlapped, histVars, before, listVars, paramVars, handlerVars, todo>>

\* ioutil.ReadAll(f): file.Read from the offset of the descriptor to the end;
\* MemoryFile.Read is bytes.Buffer.Read, which drains the buffer of the
\* stored file
ReadHandle ==
    /\ handles # <<>>
    /\ UNCHANGED hashRet
    /\ LET f == handles[1]
       IN  IF engine = "disk" /\ f.closed
           THEN HandleStep("Read", f, "error") /\ UNCHANGED <<mem, rbuf>>
           ELSE IF engine = "disk"
           THEN /\ HandleStep("Read", [f EXCEPT !.pos = Len(idata[f.ino])], "nil")
                /\ rbuf' = [rbuf EXCEPT ![First] =
                                @ \o SubSeq(idata[f.ino], f.pos + 1, Len(idata[f.ino]))]
                /\ UNCHANGED mem
           ELSE /\ HandleStep("Read", f, "nil")
                /\ rbuf' = [rbuf EXCEPT ![First] = @ \o mem[f.key]]
                /\ mem' = [mem EXCEPT ![f.key] = <<>>]

\* f.Seek(0, 0): the offset of the descriptor; MemoryFile.Seek sets an index
\* that Read does not use
SeekHandle ==
    /\ handles # <<>>
    /\ UNCHANGED <<mem, rbuf, hashRet>>
    /\ LET f == handles[1]
       IN  IF engine = "disk" /\ f.closed
           THEN HandleStep("Seek", f, "error")
           ELSE HandleStep("Seek", [f EXCEPT !.pos = 0], "nil")

\* f.Write(p): file.Write on the read-only descriptor; MemoryFile.Write
\* appends to the buffer of the stored file
WriteHandle ==
    /\ handles # <<>>
    /\ UNCHANGED <<rbuf, hashRet>>
    /\ \E p \in WriteData :
        LET f == handles[1]
        IN  IF engine = "disk"
            THEN HandleStep("Write", Write(f, p).file, Write(f, p).err) /\ UNCHANGED mem
            ELSE /\ HandleStep("Write", [f EXCEPT !.hash = @ \o p,
                                                  !.pos = Len(mem[f.key]) + Len(p)], "nil")
                 /\ mem' = [mem EXCEPT ![f.key] = @ \o p]

\* f.Hash(): file.Hash; MemoryFile.Hash is the digest of what was written
HashHandle ==
    /\ handles # <<>>
    /\ UNCHANGED <<mem, rbuf>>
    /\ LET f == handles[1]
       IN  IF engine = "disk" /\ f.closed
           THEN /\ HandleStep("Hash", f, "error")
                /\ hashRet' = [h |-> 1, err |-> "error", sum |-> <<>>, cached |-> FALSE,
                               after |-> lastOp]
           ELSE IF engine = "disk"
           THEN /\ HandleStep("Hash", Hash(f, idata).file, "nil")
                /\ hashRet' = [h |-> 1, err |-> "nil", sum |-> Hash(f, idata).sum,
                               cached |-> Hash(f, idata).cached, after |-> lastOp]
           ELSE /\ HandleStep("Hash", f, "nil")
                /\ hashRet' = [h |-> 1, err |-> "nil", sum |-> Sum(f.hash), cached |-> TRUE,
                               after |-> lastOp]

\* f.Close(): the descriptor is closed; MemoryFile.Close does nothing
CloseHandle ==
    /\ handles # <<>>
    /\ UNCHANGED <<mem, rbuf, hashRet>>
    /\ LET f == handles[1]
       IN  IF engine = "disk" /\ f.closed
           THEN HandleStep("Close", f, "error")
           ELSE HandleStep("Close", [f EXCEPT !.closed = (engine = "disk")], "nil")

\* objects are stored, then one of them is opened and its handle is used
HandleNext ==
    \/ (handles = <<>> /\ SeqCreate)
    \/ OpenHandle
    \/ ReadHandle
    \/ SeekHandle
    \/ WriteHandle
    \/ HashHandle
    \/ CloseHandle

HandleSpec == ListInit /\ [][HandleNext]_vars

\* ------------------------------------------------------------------------
\* diskFS.List system call by system call, beside Create and Delete
\* ------------------------------------------------------------------------
\* what no step of the walk changes
walkRest == <<engine, listVars, paramVars, handlerVars, lastOp, hashRet>>

\* readDirNames: the entries of dir, in lexical order
readDirNames(f, dir) == WalkOrder({q \in Below(f, dir) : Dir(q) = dir})

\* the first caller enters List; the call is named ListWalk to tell it from
\* the List that runs as one step
CallWalk(p) ==
    /\ engine = "disk"
    /\ p = First
    /\ \E pre \in Prefixes, l \in Limits :
         Enter(p, [op |-> "ListWalk", key |-> pre, data |-> <<>>, limit |-> l])
    /\ handles' = <<>>
    /\ todo' = <<>>
    /\ UNCHANGED <<walkRest, diskVars, memVars, fd, off, tmp, faulted, histVars>>

\* List returns r and the keys of fs to its caller; nothing closes the
\* handles the walk opened
WalkReturn(p, r, fs) ==
    /\ Return(p, r, fsys)
    /\ listed' = [listed EXCEPT ![p] = fs]
    /\ todo' = <<>>
    /\ UNCHANGED handles

\* _, err := os.Stat(bucketDir); filepath.Walk starts at bucketDir
WalkStat(p) ==
    /\ pc[p] = "wstat"
    /\ IF IsNotExist(LookupErr(fsys, BucketDir))
       THEN WalkReturn(p, "nil", <<>>)
       ELSE IF LookupErr(fsys, BucketDir) # "ok"
       THEN WalkReturn(p, "error", <<>>)
       ELSE /\ pc' = [pc EXCEPT ![p] = "walk"]
            /\ todo' = <<[step |-> "lstat", path |-> BucketDir]>>
            /\ UNCHANGED <<diskVars, fd, off, tmp, ret, listed, handles>>
    /\ UNCHANGED <<walkRest, memVars, call, rbuf, nops, faulted, overlapped, histVars,
                   before>>

\* filepath.Walk: info, err := lstat(path), and listWalk called with the error
\* or with the info of a file
WalkLstat(p) ==
    /\ pc[p] = "walk"
    /\ todo # <<>>
    /\ Head(todo).step = "lstat"
    /\ LET path == Head(todo).path
       IN  IF LookupErr(fsys, path) # "ok"
           THEN WalkReturn(p, "error walking tree", <<>>)
           ELSE /\ todo' = IF IsDirAt(fsys, path)
                              THEN <<[step |-> "readdir", path |-> path]>> \o Tail(todo)
                           ELSE IF listWalk(fsys, path, Join2(BucketDir, call[p].key))
                              THEN <<[step |-> "open", path |-> path]>> \o Tail(todo)
                           ELSE Tail(todo)
                /\ UNCHANGED <<diskVars, pc, fd, off, tmp, ret, listed, handles>>
    /\ UNCHANGED <<walkRest, memVars, call, rbuf, nops, faulted, overlapped, histVars,
                   before>>

\* filepath.Walk: names, err := readDirNames(path), listWalk called for the
\* directory, and the names queued in order
WalkReadDir(p) ==
    /\ pc[p] = "walk"
    /\ todo # <<>>
    /\ Head(todo).step = "readdir"
    /\ LET path == Head(todo).path
           names == readDirNames(fsys, path)
       IN  IF ~IsDirAt(fsys, path)
           THEN WalkReturn(p, "error walking tree", <<>>)
           ELSE /\ todo' = [i \in 1..Len(names) |-> [step |-> "lstat", path |-> names[i]]]
                              \o Tail(todo)
                /\ UNCHANGED <<diskVars, pc, fd, off, tmp, ret, listed, handles>>
    /\ UNCHANGED <<walkRest, memVars, call, rbuf, nops, faulted, overlapped, histVars,
                   before>>

\* listWalk: fd, err := os.Open(path); fd.Stat(); *files = append(*files, f)
\* (modification times are not kept in this specification)
WalkOpen(p) ==
    /\ pc[p] = "walk"
    /\ todo # <<>>
    /\ Head(todo).step = "open"
    /\ LET path == Head(todo).path
       IN  IF LookupErr(fsys, path) # "ok"
           THEN WalkReturn(p, "error", <<>>)
           ELSE /\ handles' = Append(handles,
                                 [newFile(fsys[path], WalkKey(path)) EXCEPT !.from = "List"])
                /\ todo' = Tail(todo)
                /\ UNCHANGED <<diskVars, pc, fd, off, tmp, ret, listed>>
    /\ UNCHANGED <<walkRest, memVars, call, rbuf, nops, faulted, overlapped, histVars,
                   before>>

\* the walk is over: sortStrategy.Sort(files) (the no-op strategy),
\* files = files[:limit], return files, nil
WalkDone(p) ==
    /\ pc[p] = "walk"
    /\ todo = <<>>
    /\ LET keys == [i \in 1..Len(handles) |-> handles[i].key]
       IN  WalkReturn(p, "nil", IF call[p].limit < Len(keys)
                                  THEN SubSeq(keys, 1, call[p].limit)
                                  ELSE keys)
    /\ UNCHANGED <<walkRest, memVars, call, rbuf, nops, faulted, overlapped, histVars,
                   before>>

WalkInit == Init /\ engine = "disk"

WalkNext ==
    \E p \in Procs :
        \/ CallCreate(p)
        \/ CallDelete(p)
        \/ CallWalk(p)
        \/ CreateMkdirAll(p)
        \/ CreateTempFile(p)
        \/ CreateCopy(p)
        \/ CreateRename(p)
        \/ CreateReopen(p)
        \/ CreateStat(p)
        \/ DeleteStat(p)
        \/ DeleteRemove(p)
        \/ WalkStat(p)
        \/ WalkLstat(p)
        \/ WalkReadDir(p)
        \/ WalkOpen(p)
        \/ WalkDone(p)

WalkSpec == WalkInit /\ [][WalkNext]_vars

\* ------------------------------------------------------------------------
\* The options of a listing from the client to the engine (lib/client.go)
\* ------------------------------------------------------------------------
\* the limits a client puts in its ListOptions
ClientLimits == {0, 1, 2, 10, DefaultLimit - 1, DefaultLimit}

RECURSIVE FormatUint(_)
\* fmt.Sprintf("%d", n)
FormatUint(n) ==
    IF n < 10 THEN <<Digits[n + 1]>>
    ELSE FormatUint(n \div 10) \o <<Digits[(n % 10) + 1]>>

\* ListOptions.EncodeParams: the values of the query; a parameter left out is
\* the empty string to r.URL.Query().Get
EncodeParams(o) ==
    [limitValue |-> IF o.Limit > 0 /\ o.Limit < DefaultLimit THEN FormatUint(o.Limit)
                    ELSE <<>>,
     prefix     |-> o.Prefix,
     sortValue  |-> IF o.Sort # NoStrategy THEN EncodeParam(o.Sort) ELSE <<>>]

\* what the round of a listing leaves alone
clientRest == <<engine, diskVars, memVars, pc, fd, off, tmp, rbuf, listed, ret, nops,
                faulted, overlapped, histVars, before, mtime, now, sortErr, given, policies,
                buckets, hashVars, todo>>

\* a client holds the ListOptions of a listing of the bucket: the call of the
\* first caller is client.List, that of the second the fs.List of the server
ClientInit ==
    /\ engine = "disk"
    /\ StoreIdle
    /\ ret = [p \in Procs |-> "none"]
    /\ ListIdle
    /\ HashIdle
    /\ WalkIdle
    /\ policies = <<[kind |-> "policy", name |-> BucketName, owner |-> 1]>>
    /\ buckets = NewDiskProvider(policies)
    /\ req = NoRequest
    /\ invoked = <<>>
    /\ resp = NoResponse
    /\ sortValue = <<>>
    /\ sortErr = "none"
    /\ trip = 0
    /\ sortStrategy \in Strategies \cup {NoStrategy}
    /\ given = [from |-> "options", value |-> <<>>, strategy |-> sortStrategy]
    /\ \E pre \in RequestPrefixes, l \in ClientLimits :
         call = [p \in Procs |-> IF p = First
                                 THEN [op |-> "List", key |-> pre, data |-> <<>>, limit |-> l]
                                 ELSE NoCall]

\* Client.List: the request for the files of the bucket with the parameters
\* of opts.EncodeParams()
ClientList ==
    /\ trip = 0
    /\ trip' = 1
    /\ LET vs == EncodeParams([Limit |-> call[First].limit, Prefix |-> call[First].key,
                               Sort |-> given.strategy])
       IN  /\ req' = [NoRequest EXCEPT !.handler = "fileList", !.bucket = BucketName,
                                       !.limitValue = vs.limitValue, !.prefix = vs.prefix,
                                       !.sortValue = vs.sortValue]
           /\ sortValue' = vs.sortValue
    /\ UNCHANGED <<clientRest, call, files, sortStrategy, invoked, resp>>

\* handleFileList on the request of the client, up to its call of fs.List
ServeFileList ==
    /\ trip = 1
    /\ trip' = 2
    /\ UNCHANGED <<clientRest, req, sortValue>>
    /\ LET limit == IF req.limitValue = <<>> THEN DefaultLimit
                    ELSE ParseUint(req.limitValue).value
           s == createSortStrategy(req.sortValue)
           l == DiskList(fsys, mtime, req.prefix, limit, s.strategy)
           fails == IF Get(buckets, req.bucket) # "nil" THEN Get(buckets, req.bucket)
                    ELSE IF req.limitValue # <<>> /\ ParseUint(req.limitValue).err # "nil"
                    THEN "InvalidParam"
                    ELSE s.err
       IN  IF fails # "nil"
           THEN /\ invoked' = <<"Get">>
                /\ resp' = [code |-> errorStatusCode(fails), err |-> fails]
                /\ UNCHANGED <<call, files, sortStrategy>>
           ELSE /\ invoked' = <<"Get", "List">>
                /\ call' = [call EXCEPT ![Second] = [op |-> "List", key |-> req.prefix,
                                                     data |-> <<>>, limit |-> limit]]
                /\ sortStrategy' = s.strategy
                /\ files' = l.files
                /\ resp' = [code |-> errorStatusCode(l.err), err |-> l.err]

ClientNext == ClientList \/ ServeFileList

ClientSpec == ClientInit /\ [][ClientNext]_vars

\* ------------------------------------------------------------------------
\* Keys of any form on the disk engine
\* ------------------------------------------------------------------------
\* keys the route of a file admits: a plain one, one with a doubled
\* separator, one that leads into the directory of the bucket y, one that
\* leads out of the root
WideKeys == {KeyA,
             <<"a", "/", "/", "b">>,
             <<".", ".", "/", "y", "/", "a">>,
             <<".", ".", "/", ".", ".", "/", "e">>}

\* fs.Create(bucket, k, r) with a key of any form
WideCreate ==
    /\ nops < MaxOps
    /\ nops' = nops + 1
    /\ files' = <<>>
    /\ listed' = [q \in Procs |-> <<>>]
    /\ UNCHANGED memVars
    /\ \E k \in WideKeys, data \in Contents, t \in Stamps :
        \E r \in {CreateRun(fsys, idata, mtime, k, data, t)} :
            /\ SeqCall([op |-> "Create", key |-> k, data |-> data, limit |-> 0], r.err)
            /\ fsys' = r.tree
            /\ idata' = r.data
            /\ mtime' = r.mtime
            /\ now' = t

\* fs.Delete(bucket, k) with a key of any form
WideDelete ==
    /\ nops < MaxOps
    /\ nops' = nops + 1
    /\ files' = <<>>
    /\ listed' = [q \in Procs |-> <<>>]
    /\ UNCHANGED <<memVars, now>>
    /\ \E k \in WideKeys :
        \E r \in {DeleteRun(fsys, k)} :
            LET keep == {r.tree[q] : q \in DOMAIN r.tree} \ {0}
            IN  /\ SeqCall([op |-> "Delete", key |-> k, data |-> <<>>, limit |-> 0], r.err)
                /\ fsys' = r.tree
                /\ idata' = [i \in keep |-> idata[i]]
                /\ mtime' = [i \in keep |-> mtime[i]]

WideNext == WideCreate \/ WideDelete

WideSpec == HashInit /\ [][WideNext]_vars

\* ------------------------------------------------------------------------
\* Properties
\* ------------------------------------------------------------------------
\* caller p's last call was op, it has returned, and no call has started since
Returned(p, op) == call[p].op = op /\ ret[p] # "none"

\* C1: concurrent Create and Open on one key: the bytes a successful Open
\* gives, read to the end of the stream, are the complete data of one Create
\* renamed onto the key (or the data stored before), never a prefix or a
\* mixture of a stream still being written.
C1_OpenReadsCompleteContent ==
    \A p \in Procs :
        (engine = "disk" /\ Returned(p, "Open") /\ ret[p] = "nil")
            => rbuf[p] \in pub[call[p].key]

\* C1 happens: an Open has read the whole stored content while a Create on
\* the same key was in the middle of copying its source
C1_Witness ==
    \E p, q \in Procs :
        /\ Returned(p, "Open") /\ ret[p] = "nil" /\ rbuf[p] # <<>>
        /\ call[q].op = "Create" /\ call[q].key = call[p].key
        /\ pc[q] = "copy" /\ off[q] > 0

\* C2: calls one after another: once Create(bucket, key, C) has returned
\* success, Open of the key and a read to the end of the stream give exactly
\* C, whatever was stored under the key before.
C2_CreateOpenRoundTrip ==
    \A p \in Procs :
        (~overlapped /\ Returned(p, "Create") /\ ret[p] = "nil")
            => OpenNow(call[p].key) = [err |-> "nil", data |-> call[p].data]

\* C2 happens: a Create has returned success over a key that held other data
C2_Witness ==
    \E p \in Procs :
        /\ ~overlapped /\ engine = "disk"
        /\ Returned(p, "Create") /\ ret[p] = "nil"
        /\ before[p].err = "nil" /\ before[p].data # call[p].data

\* C3: calls one after another: whenever Create returns an error, Open of the
\* key gives what it gave before the call; a failed Create leaves no
\* published object.
C3_FailedCreatePublishesNothing ==
    \A p \in Procs :
        (~overlapped /\ engine = "disk" /\ Returned(p, "Create") /\ ret[p] # "nil")
            => /\ OpenNow(call[p].key).err = before[p].err
               /\ OpenNow(call[p].key).data = before[p].data

\* C4: when the copy into the temporary file or the rename fails, Create
\* returns that error and the key holds what it held before the call (calls
\* one after another), and in every interleaving what it holds is the
\* complete data of a Create or nothing, never a part of the failed stream.
C4_FailedCopyOrRenameKeepsTarget ==
    \A p \in Procs :
        (engine = "disk" /\ Returned(p, "Create")
                /\ ret[p] \in {"storing failed", "rename failed"})
            => /\ ~overlapped =>
                    /\ OpenNow(call[p].key).err = before[p].err
                    /\ OpenNow(call[p].key).data = before[p].data
               /\ OpenNow(call[p].key).err = "nil" =>
                    OpenNow(call[p].key).data \in pub[call[p].key]

\* C4 happens: the copy has failed after part of the source was written, over
\* a key that holds an object
C4_Witness ==
    \E p \in Procs :
        /\ ~overlapped /\ Returned(p, "Create") /\ ret[p] = "storing failed"
        /\ before[p].err = "nil"
        /\ \E q \in DOMAIN fsys :
              /\ HasPrefix(WalkKey(q), PendingPrefix)
              /\ idata[fsys[q]] # <<>>
              /\ idata[fsys[q]] # call[p].data

\* C5: no List result, whatever its prefix and limit, has an entry that is a
\* "pending-" temporary file of Create, also while a Create is in flight and
\* after a Create has failed.
C5_ListHidesPendingFiles ==
    \A p \in Procs :
        (engine = "disk" /\ Returned(p, "List") /\ ret[p] = "nil")
            => \A i \in 1..Len(listed[p]) : ~HasPrefix(listed[p][i], PendingPrefix)

\* C6: once two concurrent Creates on one key have both returned success, the
\* key holds the complete data of one of them: the one renamed last.
C6_LastRenameWins ==
    \A p, q \in Procs :
        (/\ p # q /\ engine = "disk"
         /\ Returned(p, "Create") /\ ret[p] = "nil"
         /\ Returned(q, "Create") /\ ret[q] = "nil"
         /\ call[p].key = call[q].key)
            => /\ OpenNow(call[p].key).err = "nil"
               /\ lastPub[call[p].key] = Present(OpenNow(call[p].key).data)
               /\ OpenNow(call[p].key).data \in {call[p].data, call[q].data}

\* C6 happens: two overlapping Creates with different data on one key have
\* both returned success
C6_Witness ==
    \E p, q \in Procs :
        /\ p # q /\ overlapped
        /\ Returned(p, "Create") /\ ret[p] = "nil"
        /\ Returned(q, "Create") /\ ret[q] = "nil"
        /\ call[p].key = call[q].key /\ call[p].data # call[q].data

\* C7: once two concurrent Creates on distinct keys have both returned
\* success (and neither object was removed since), Open of each key gives
\* exactly the data passed to the Create of that key.
C7_DistinctKeysDoNotInterfere ==
    \A p, q \in Procs :
        (/\ p # q /\ engine = "disk"
         /\ Returned(p, "Create") /\ ret[p] = "nil"
         /\ Returned(q, "Create") /\ ret[q] = "nil"
         /\ call[p].key # call[q].key
         /\ lastPub[call[p].key] = Present(call[p].data)
         /\ lastPub[call[q].key] = Present(call[q].data))
            => /\ OpenNow(call[p].key) = [err |-> "nil", data |-> call[p].data]
               /\ OpenNow(call[q].key) = [err |-> "nil", data |-> call[q].data]

\* C7 happens: two overlapping Creates on distinct keys, with different data,
\* have both returned success
C7_Witness ==
    \E p, q \in Procs :
        /\ p # q /\ overlapped
        /\ Returned(p, "Create") /\ ret[p] = "nil"
        /\ Returned(q, "Create") /\ ret[q] = "nil"
        /\ call[p].key # call[q].key /\ call[p].data # call[q].data

\* C8: calls one after another, on either engine: from the return of a
\* successful Delete of a key that held an object until the next successful
\* Create on that key, Open of the key fails with FileNotFound.
C8_DeletedKeyStaysNotFound ==
    \A k \in Keys :
        (~overlapped /\ acked[k] = "deleted" /\ \A q \in Procs : pc[q] = "idle")
            => OpenNow(k).err = "FileNotFound"

\* C9: calls one after another, no system call failed by the medium: Delete of a key under which no object is
\* stored (Open would fail with FileNotFound) returns FileNotFound and leaves
\* the tree as it was.
C9_DeleteOfAbsentKeyIsNotFound ==
    \A p \in Procs :
        (/\ ~overlapped /\ engine = "disk" /\ ~faulted
         /\ Returned(p, "Delete") /\ before[p].err = "FileNotFound")
            => /\ ret[p] = "FileNotFound"
               /\ fsys = before[p].tree

\* C10: calls one after another, no system call failed by the medium: Open returns a handle exactly when a leaf
\* object is stored under the key, and fails with FileNotFound otherwise,
\* whether the key does not exist or names a directory.
C10_OpenNotFoundUnlessLeaf ==
    \A p \in Procs :
        (~overlapped /\ engine = "disk" /\ ~faulted /\ Returned(p, "Open"))
            => /\ ret[p] = "nil" <=> IsFileAt(fsys, dst(p))
               /\ ret[p] # "nil" => ret[p] = "FileNotFound"

\* the keys under which an object is stored: Open gives a handle
StoredKeys == {k \in Keys : OpenNow(k).err = "nil"}

\* the keys of the files the last List returned
ListedKeys == {files[i].key : i \in 1..Len(files)}

\* C11: calls one after another, either engine: List with the default
\* (unlimited) limit returns no error and exactly the stored keys that start
\* with the prefix, for the empty prefix, a prefix ending in a separator and
\* a prefix no key starts with.
C11_ListGivesKeysWithPrefix ==
    (Returned(First, "List") /\ call[First].limit = DefaultLimit)
        => /\ ret[First] = "nil"
           /\ ListedKeys = {k \in StoredKeys : HasPrefix(k, call[First].key)}

\* the stored keys that start with the prefix of the last List
Matches == {k \in StoredKeys : HasPrefix(k, call[First].key)}

\* the File List has to give for the object stored under k
StoredFile(k) ==
    [key |-> k,
     lastModified |-> IF engine = "disk" THEN mtime[fsys[pathForFile(k)]] ELSE mtime[k]]

\* file a comes strictly before file b in the order of strategy s
Precedes(s, a, b) ==
    CASE s.kind = "noOp" -> FALSE
      [] s.kind = "byKey" ->
            IF s.isAscending THEN StrLess(a.key, b.key) ELSE StrLess(b.key, a.key)
      [] OTHER ->
            IF s.isAscending THEN a.lastModified < b.lastModified
            ELSE a.lastModified > b.lastModified

Min(a, b) == IF a < b THEN a ELSE b

\* C12: calls one after another, either engine: List returns min(limit,
\* matchCount) files, matchCount the number of stored keys that start with
\* the prefix: none for limit 0, all for the default limit; and they are the
\* first of the sorted sequence: in the order of the strategy, and no match
\* left out comes before one returned.
C12_ListCutsToLimit ==
    Returned(First, "List")
        => /\ ret[First] = "nil"
           /\ Len(files) = Min(call[First].limit, Cardinality(Matches))
           /\ \A i \in 1..(Len(files) - 1) :
                  ~Precedes(call[First].sort, files[i + 1], files[i])
           /\ \A i \in 1..Len(files) : \A k \in Matches \ ListedKeys :
                  ~Precedes(call[First].sort, StoredFile(k), files[i])

\* nothing was ever created in the bucket: the disk has no directory for it,
\* the in-memory engine no map
BucketUnwritten ==
    IF engine = "disk" THEN ~Exists(fsys, BucketDir) ELSE ~memBucket

\* C13: List on a bucket in which no object was ever created returns the
\* empty collection and no error, whatever the prefix, the limit and the
\* sort strategy, on both engines.
C13_ListOfUnwrittenBucketIsEmpty ==
    (Returned(First, "List") /\ BucketUnwritten)
        => /\ ret[First] = "nil"
           /\ files = <<>>

\* C13 happens: the disk engine has listed a bucket without a directory, with
\* a prefix, a limit and a sorting strategy
C13_Witness ==
    /\ engine = "disk" /\ Returned(First, "List") /\ BucketUnwritten
    /\ call[First].key # <<>>
    /\ call[First].limit = 1
    /\ call[First].sort = ByLastModifiedStrategy(FALSE)

\* Sort with strategy s has returned
Sorted(s) == Returned(First, "Sort") /\ call[First].sort = s

\* C14: after the by-key strategy has sorted a collection, every adjacent
\* pair is in order under byte-wise comparison of the keys: key[i] <=
\* key[i+1] ascending, key[i] >= key[i+1] descending.
C14_ByKeyOrdersAdjacentPairs ==
    \A i \in 1..(Len(files) - 1) :
        /\ Sorted(ByKeyStrategy(TRUE)) => ~StrLess(files[i + 1].key, files[i].key)
        /\ Sorted(ByKeyStrategy(FALSE)) => ~StrLess(files[i].key, files[i + 1].key)

\* C14 happens: a collection of three files has been sorted descending by
\* key, two of its keys equal
C14_Witness ==
    /\ Sorted(ByKeyStrategy(FALSE))
    /\ Len(files) = 3
    /\ files[1].key # files[2].key
    /\ files[2].key = files[3].key
    /\ files[2].lastModified # files[3].lastModified

\* C15 as stated: after the by-lastModified strategy has sorted a collection,
\* every adjacent pair is strictly ordered: lastModified[i] Before
\* lastModified[i+1] ascending, After it descending.
C15_ByLastModifiedStrictlyOrders ==
    \A i \in 1..(Len(files) - 1) :
        /\ Sorted(ByLastModifiedStrategy(TRUE))
              => files[i].lastModified < files[i + 1].lastModified
        /\ Sorted(ByLastModifiedStrategy(FALSE))
              => files[i].lastModified > files[i + 1].lastModified

\* C15 amended: after the by-lastModified strategy has sorted a collection,
\* no adjacent pair is out of order: lastModified[i] is never After
\* lastModified[i+1] ascending, never Before it descending; the order is
\* strict (Before, After) between files whose times differ.
C15_ByLastModifiedOrders ==
    \A i \in 1..(Len(files) - 1) :
        /\ Sorted(ByLastModifiedStrategy(TRUE))
              => files[i].lastModified <= files[i + 1].lastModified
        /\ Sorted(ByLastModifiedStrategy(FALSE))
              => files[i].lastModified >= files[i + 1].lastModified

\* C15 happens: a collection of three files has been sorted descending by
\* lastModified, two of its times equal
C15_Witness ==
    /\ Sorted(ByLastModifiedStrategy(FALSE))
    /\ Len(files) = 3
    /\ files[1].lastModified # files[2].lastModified
    /\ files[2].lastModified = files[3].lastModified
    /\ files[2].key # files[3].key

\* the four sort parameters of the specification, written out
ValidTokens ==
    { <<"+", "k", "e", "y">>,
      <<"-", "k", "e", "y">>,
      <<"+", "l", "a", "s", "t", "M", "o", "d", "i", "f", "i", "e", "d">>,
      <<"-", "l", "a", "s", "t", "M", "o", "d", "i", "f", "i", "e", "d">> }

\* C16: decoding a non-empty sort parameter gives InvalidParam and no
\* strategy unless the parameter is exactly one of +key, -key, +lastModified
\* and -lastModified, and gives no error for these four.
C16_OnlyFourTokensDecode ==
    (given.from = "value" /\ given.value # <<>> /\ trip >= 1) =>
        /\ (given.value \notin ValidTokens) =>
              (sortErr = "InvalidParam" /\ sortStrategy = NoStrategy)
        /\ (given.value \in ValidTokens) =>
              (sortErr = "nil" /\ sortStrategy \in Strategies)

\* a marker followed by something that is no criterion has been refused
C16_Witness ==
    /\ given.from = "value"
    /\ trip >= 1
    /\ Len(given.value) >= 2
    /\ given.value[1] \in {"+", "-"}
    /\ given.value \notin ValidTokens
    /\ sortErr = "InvalidParam"

\* C17: each of the five strategies encodes to a parameter that decodes
\* back to the same strategy, and each of the four valid parameters and the
\* empty one decodes to a strategy that encodes back to the same parameter.
C17_StrategiesRoundTrip ==
    /\ (given.from = "strategy" /\ trip = 2) =>
          (sortErr = "nil" /\ sortStrategy = given.strategy)
    /\ (given.from = "value" /\ given.value \in ValidTokens \cup {<<>>} /\ trip >= 1) =>
          sortErr = "nil"
    /\ (given.from = "value" /\ given.value \in ValidTokens \cup {<<>>} /\ trip = 2) =>
          sortValue = given.value

\* a descending strategy has come back from its encoding
C17_Witness ==
    /\ given.from = "strategy"
    /\ trip = 2
    /\ given.strategy = ByLastModifiedStrategy(FALSE)
    /\ sortValue = <<"-", "l", "a", "s", "t", "M", "o", "d", "i", "f", "i", "e", "d">>
    /\ sortStrategy = given.strategy


\* the FileSystem operations among the operations the last handler called
FileSystemOps == {i \in 1..Len(invoked) : invoked[i] \in {"Create", "Open", "Delete", "List"}}

\* C18: a request of create, delete, exists, get or file list for a bucket
\* name the registry does not know is answered with BucketNotFound and calls
\* no operation of the FileSystem, and in every request the lookup of the
\* bucket comes before every operation of the FileSystem.
C18_UnknownBucketTouchesNoStorage ==
    /\ (req.handler # "none" /\ req.bucket \notin DOMAIN buckets) =>
          /\ resp = [code |-> 404, err |-> "BucketNotFound"]
          /\ FileSystemOps = {}
    /\ req.handler # "none" =>
          /\ invoked[1] = "Get"
          /\ \A i \in FileSystemOps : i > 1

\* a delete for an unknown bucket has been refused while the store has the key
C18_Witness ==
    /\ req.handler = "delete"
    /\ req.bucket = UnknownName
    /\ DOMAIN buckets = {BucketName}
    /\ DiskOpen(fsys, idata, req.key).err = "nil"
    /\ resp.err = "BucketNotFound"
    /\ invoked = <<"Get">>


\* C19: calls one after another: Hash called on the handle of a successful
\* Create(bucket, key, C) straight after the Create returns no error and the
\* SHA-1 digest of C, the empty C included.
C19_HashAfterCreateIsDigestOfContent ==
    (hashRet.h # 0 /\ hashRet.after = [op |-> "Create", h |-> hashRet.h, err |-> "nil"])
        => /\ hashRet.err = "nil"
           /\ hashRet.sum = <<"sha1", handles[hashRet.h].given>>

\* Hash has read the stream again after a Create whose copy went past
\* file.Write, over a key that held another content
C19_Witness ==
    /\ hashRet.h = 2
    /\ hashRet.after = [op |-> "Create", h |-> 2, err |-> "nil"]
    /\ ~hashRet.cached
    /\ handles[2].given # <<>>
    /\ handles[1].key = handles[2].key
    /\ handles[1].given # handles[2].given
    /\ hashRet.sum = <<"sha1", handles[2].given>>

\* C20: whenever Hash returns on a handle, after whatever calls of Hash and
\* Write on handles and of Create on its key, it returns the digest of the
\* content stored under the key of the handle as Hash returns.
C20_HashIsDigestOfPersistedContent ==
    (lastOp.op = "Hash" /\ hashRet.err = "nil")
        => /\ DiskOpen(fsys, idata, handles[hashRet.h].key).err = "nil"
           /\ hashRet.sum = <<"sha1", DiskOpen(fsys, idata, handles[hashRet.h].key).data>>


\* C21: whatever calls of Read, Seek, Write, Hash and Close are made on a
\* handle of Open or List, Open of its key gives the content it gave when
\* the handle was made, on the disk engine and on the in-memory engine.
C21_HandlesLeaveStoreAlone ==
    handles # <<>> =>
        OpenNow(handles[1].key) = [err |-> "nil", data |-> handles[1].given]


\* the places of the policies of the directory that declare the name n
Declaring(n) == {i \in 1..Len(policies) : policies[i].kind = "policy" /\ policies[i].name = n}

\* C22: on a registry loaded from a policy directory, Get(name) returns a
\* bucket of that name exactly when a loaded policy declared the name, the
\* bucket of the policy read last, and BucketNotFound otherwise; List has
\* one bucket for each declared name and no other.
C22_RegistryHoldsDeclaredBuckets ==
    /\ (req.handler = "Get" /\ Declaring(req.bucket) = {}) =>
          (resp.err = "BucketNotFound" /\ resp.buckets = <<>>)
    /\ (req.handler = "Get" /\ Declaring(req.bucket) # {}) =>
          LET last == CHOOSE i \in Declaring(req.bucket) :
                          \A j \in Declaring(req.bucket) : j <= i
          IN  /\ resp.err = "nil"
              /\ resp.buckets = <<[name |-> req.bucket, owner |-> policies[last].owner]>>
    /\ req.handler = "List" =>
          /\ resp.err = "nil"
          /\ \A n \in PolicyNames :
                Cardinality({i \in 1..Len(resp.buckets) : resp.buckets[i].name = n})
                    = IF Declaring(n) = {} THEN 0 ELSE 1
          /\ \A i \in 1..Len(resp.buckets) : resp.buckets[i].name \in PolicyNames

\* Get has returned the bucket of the later of two policies of one name with
\* different owners, past a sub-directory that holds a policy
C22_Witness ==
    /\ req.handler = "Get"
    /\ Cardinality(Declaring(req.bucket)) = 2
    /\ \E i, j \in Declaring(req.bucket) : i < j /\ policies[i].owner # policies[j].owner
    /\ \E i \in 1..Len(policies) : policies[i].kind = "dir"
    /\ resp.err = "nil"


\* C23: on the in-memory engine, Delete of a key under which no object is
\* stored, the bucket never written to included, returns FileNotFound.
C23_MemoryDeleteOfAbsentKeyIsNotFound ==
    \A p \in Procs :
        (engine = "memory" /\ Returned(p, "Delete") /\ before[p].err = "FileNotFound")
            => ret[p] = "FileNotFound"


\* the paths that are neither the directory of the bucket, nor below it, nor
\* above it
Outside(q) ==
    /\ q \notin {<<".">>, Root, BucketDir}
    /\ ~HasPrefix(q, BucketDir \o <<Sep>>)

\* C24: whatever the key, a Create or Delete on the bucket creates, replaces
\* and removes nothing at a path outside the directory of the bucket, the
\* objects of other buckets among them.
C24_OperationsStayInBucket ==
    [][\A q \in DOMAIN fsys \cup DOMAIN fsys' :
         Outside(q) => (q \in DOMAIN fsys /\ q \in DOMAIN fsys' /\ fsys'[q] = fsys[q])]_vars


\* C25: two Deletes of the disk engine in flight together on one key under
\* which an object was stored when each of them started: one returns success
\* and the other FileNotFound; neither gets an opaque storage error.
C25_RacingDeletesSplitCleanly ==
    (/\ engine = "disk" /\ ~faulted
     /\ \A p \in Procs : Returned(p, "Delete") /\ before[p].err = "nil"
     /\ call[First].key = call[Second].key)
        => {ret[p] : p \in Procs} = {"nil", "FileNotFound"}


\* C26: a List of the disk engine that runs while Create and Delete change
\* the bucket (no system call failed by the medium) returns no error.
C26_ListBesideWritersNeverFails ==
    \A p \in Procs :
        (engine = "disk" /\ ~faulted /\ Returned(p, "ListWalk")) => ret[p] = "nil"

\* C27: when List returns, every handle its walk opened is either in the
\* collection it returned or closed.
C27_ListLeaksNoHandle ==
    Returned(First, "ListWalk")
        => \A i \in DOMAIN handles :
               \/ handles[i].closed
               \/ /\ ret[First] = "nil"
                  /\ \E j \in DOMAIN listed[First] : listed[First][j] = handles[i].key


\* C28: Hash on a handle fresh from Open does not change what the handle
\* reads next: Hash, then a read to the end of the stream, gives the whole
\* content of the object.
C28_HashLeavesTheStreamAlone ==
    (/\ handles # <<>>
     /\ handles[1].from = "Open"
     /\ handles[1].ops = <<"Hash", "Read">>)
        => rbuf[First] = handles[1].given

\* C29: the handle Open returns reports the modification time the backend
\* keeps for the object, the one the entry of List reports, and never the
\* zero time.
C29_OpenReportsBackendTime ==
    (/\ handles # <<>>
     /\ handles[1].from = "Open"
     /\ handles[1].ops = <<>>)
        => /\ handles[1].lastModified = HandleOf(handles[1].key, "List").lastModified
           /\ handles[1].lastModified # 0


\* C30: the limit of the ListOptions of a client, zero included, is the limit
\* handleFileList hands to the List of the storage engine.
C30_LimitSurvivesTheRequest ==
    trip = 2 /\ given.from = "options"
        => /\ resp.err = "nil"
           /\ call[Second].op = "List"
           /\ call[Second].limit = call[First].limit

====
